---- MODULE Spec2Model ----
(***************************************************************************)
(* d3figurer: the serial job queue (makeQueue), the render daemon          *)
(* (FigurerServer) and the batch client (FigurerClient), as state machines. *)
(*                                                                         *)
(* Three specifications share the module:                                  *)
(*   SpecQueue  (and SpecQueueFair)  makeQueue() on its own                 *)
(*   SpecServer                      FigurerServer: requests, queue, page   *)
(*   SpecClient                      FigurerClient: renderBatch and calls   *)
(* Each leaves the variables of the other two untouched.                   *)
(***************************************************************************)
EXTENDS Integers, Sequences, FiniteSets, TLC

VARIABLES
    queues,       \* makeQueue(): queue id -> the closure's promise chain
    srv,          \* FigurerServer: the fields of the instance and its process
    conns,        \* FigurerServer: the HTTP requests it has accepted
    srvQ,         \* FigurerServer._enqueue: the promise chain of its queue
    cli           \* FigurerClient: renderBatch's locals, the hang log, the calls

vars == <<queues, srv, conns, srvQ, cli>>

\* ------------------------------------------------------------------------
\* Bounds of the model
\* ------------------------------------------------------------------------
MaxTasks == 3        \* tasks enqueued over all queues of SpecQueue

\* ------------------------------------------------------------------------
\* Promises
\* ------------------------------------------------------------------------
Undefined == "undefined"

Pending      == [st |-> "pending",   val |-> Undefined]
Fulfilled(v) == [st |-> "fulfilled", val |-> v]
Rejected(v)  == [st |-> "rejected",  val |-> v]

Settled(p) == p.st # "pending"

\* p.catch(() => {}): fulfils with p's value, or with undefined when p rejects
CatchSwallow(p) ==
    IF p.st = "rejected" THEN Fulfilled(Undefined) ELSE p

\* ------------------------------------------------------------------------
\* makeQueue (server.js 41-48)
\*   task[k]  what the k-th enqueued fn does when it is called
\*   fn[k]    "waiting" | "running" | "returned" | "skipped"
\*   next[k]  the promise tail.then(fn), handed to the caller
\*   tail[k]  the value of the closure variable tail after the k-th enqueue
\*   log      the side effects of the tasks, in the order they happen
\* ------------------------------------------------------------------------
InitialTail == Fulfilled(Undefined)

EmptyQueue == [task |-> <<>>, fn |-> <<>>, next |-> <<>>, tail |-> <<>>, log |-> <<>>]

\* faulty variant: tail is never reassigned, every task chains on the first promise
PrevTailStale(q, k) == InitialTail

\* the promise the k-th fn was chained on: the value of tail at its enqueue
PrevTail(q, k) == IF k = 1 THEN InitialTail ELSE q.tail[k - 1]

\* faulty variant: tail = next, the rejection is not recovered
TailOfNoCatch(p) == p

\* tail = next.catch(() => {})
TailOf(p) == CatchSwallow(p)

\* faulty variant: the queue hands out its internal chain
ReturnedTail(q, k) == q.tail[k]

\* return next
Returned(q, k) == q.next[k]

\* enqueue(fn): next = tail.then(fn); tail = next.catch(...); return next
QEnqueue(q, t) ==
    [q EXCEPT !.task = Append(@, t),
              !.fn   = Append(@, "waiting"),
              !.next = Append(@, Pending),
              !.tail = Append(@, TailOf(Pending))]

\* the reaction of tail.then(fn) is due: the promise it was chained on settled
QCanStart(q, k) ==
    /\ k \in 1..Len(q.fn)
    /\ q.fn[k] = "waiting"
    /\ Settled(PrevTail(q, k))

\* the reaction of tail.then(fn): fn is called when tail fulfilled; a rejected
\* tail passes its reason on to next and fn is never called. A fn that throws
\* rejects next at once.
QStart(q, k) ==
    LET prev == PrevTail(q, k)
        t    == q.task[k]
    IN  IF prev.st = "rejected"
        THEN [q EXCEPT !.fn[k] = "skipped", !.next[k] = Rejected(prev.val)]
        ELSE IF t.beh = "throw"
        THEN [q EXCEPT !.fn[k] = "returned", !.next[k] = Rejected(t.val),
                       !.log = Append(@, <<k, "start">>)]
        ELSE [q EXCEPT !.fn[k] = "running",
                       !.log = Append(@, <<k, "start">>)]

\* the promise fn returned settles, and next with it
QCanSettle(q, k) ==
    /\ k \in 1..Len(q.fn)
    /\ q.fn[k] = "running"
    /\ q.task[k].beh \in {"resolve", "reject"}

QSettle(q, k) ==
    LET t == q.task[k]
    IN  [q EXCEPT !.fn[k] = "returned",
                  !.next[k] = IF t.beh = "resolve" THEN Fulfilled(t.val)
                              ELSE Rejected(t.val),
                  !.log = Append(@, <<k, "end">>)]

\* the reaction of next.catch(() => {}) settles tail
QCanRecover(q, k) ==
    /\ k \in 1..Len(q.fn)
    /\ Settled(q.next[k])
    /\ ~Settled(q.tail[k])

QRecover(q, k) == [q EXCEPT !.tail[k] = TailOf(q.next[k])]

\* ------------------------------------------------------------------------
\* SpecQueue: queues made by makeQueue(), fed with tasks of every behaviour
\* ------------------------------------------------------------------------
QueueIds   == {1, 2}
Behaviours == {"resolve", "reject", "throw", "never"}

\* what the k-th task of queue i resolves or rejects with: a value of its own
TaskValue(i, k) == <<"value", i, k>>

TotalTasks == Len(queues[1].fn) + Len(queues[2].fn)

IdleServer == [up |-> FALSE]
IdleClient == [up |-> FALSE]

InitQueue ==
    /\ queues = [i \in QueueIds |-> EmptyQueue]
    /\ srv = IdleServer
    /\ conns = <<>>
    /\ srvQ = EmptyQueue
    /\ cli = IdleClient

Enqueue(i, beh) ==
    /\ TotalTasks < MaxTasks
    /\ queues' = [queues EXCEPT ![i] =
                     QEnqueue(@, [beh |-> beh, val |-> TaskValue(i, Len(@.fn) + 1)])]
    /\ UNCHANGED <<srv, conns, srvQ, cli>>

\* faulty variant: the queues share one chain, a task starts only when no
\* task of another queue is running
TaskStartSharedChain(i, k) ==
    /\ QCanStart(queues[i], k)
    /\ \A j \in QueueIds \ {i} :
          \A m \in 1..Len(queues[j].fn) : queues[j].fn[m] # "running"
    /\ queues' = [queues EXCEPT ![i] = QStart(@, k)]
    /\ UNCHANGED <<srv, conns, srvQ, cli>>

TaskStart(i, k) ==
    /\ QCanStart(queues[i], k)
    /\ queues' = [queues EXCEPT ![i] = QStart(@, k)]
    /\ UNCHANGED <<srv, conns, srvQ, cli>>

TaskSettle(i, k) ==
    /\ QCanSettle(queues[i], k)
    /\ queues' = [queues EXCEPT ![i] = QSettle(@, k)]
    /\ UNCHANGED <<srv, conns, srvQ, cli>>

TailRecover(i, k) ==
    /\ QCanRecover(queues[i], k)
    /\ queues' = [queues EXCEPT ![i] = QRecover(@, k)]
    /\ UNCHANGED <<srv, conns, srvQ, cli>>

NextQueue ==
    \/ \E i \in QueueIds, beh \in Behaviours : Enqueue(i, beh)
    \/ \E i \in QueueIds, k \in 1..MaxTasks : TaskStart(i, k)
    \/ \E i \in QueueIds, k \in 1..MaxTasks : TaskSettle(i, k)
    \/ \E i \in QueueIds, k \in 1..MaxTasks : TailRecover(i, k)

SpecQueue == InitQueue /\ [][NextQueue]_vars

\* The microtask and timer queues of the event loop run every reaction that
\* is due, and a task that is not "never" settles.
SpecQueueFair ==
    /\ SpecQueue
    /\ \A i \in QueueIds, k \in 1..MaxTasks :
          /\ WF_vars(TaskStart(i, k))
          /\ WF_vars(TaskSettle(i, k))
          /\ WF_vars(TailRecover(i, k))

\* ------------------------------------------------------------------------
\* Claims about makeQueue
\* ------------------------------------------------------------------------
Called(q, k) == q.fn[k] \in {"running", "returned"}

\* C1: on one queue the tasks run strictly in enqueue order whatever their
\* durations: task k+1 is called only after task k has settled, and the
\* side effects (starts and completions) appear in enqueue order.
C1_EnqueueOrder ==
    \A i \in QueueIds :
        LET q == queues[i]
        IN  /\ \A k \in 1..(Len(q.fn) - 1) :
                   Called(q, k + 1) => (q.fn[k] = "returned" /\ Settled(q.next[k]))
            /\ \A a, b \in 1..Len(q.log) : a < b => q.log[a][1] <= q.log[b][1]
            /\ Cardinality({k \in 1..Len(q.fn) : q.fn[k] = "running"}) <= 1

\* three tasks enqueued before the first one settled have all run to the end
C1_Witness ==
    \E i \in QueueIds :
        /\ Len(queues[i].fn) = 3
        /\ queues[i].log = << <<1, "start">>, <<1, "end">>, <<2, "start">>,
                              <<2, "end">>, <<3, "start">>, <<3, "end">> >>

NoHangBefore(q, k) == \A j \in 1..(k - 1) : q.task[j].beh # "never"

\* C2: a task that rejects or throws never blocks the queue: every enqueued
\* task whose predecessors all settle is eventually called, also when some
\* predecessor rejects.
C2_LivenessAfterFailure ==
    \A i \in QueueIds, k \in 1..MaxTasks :
        (k <= Len(queues[i].fn) /\ NoHangBefore(queues[i], k))
            ~> (k <= Len(queues[i].fn) /\ Called(queues[i], k))

\* a task was called after its predecessor rejected
C2_Witness ==
    \E i \in QueueIds, k \in 1..(MaxTasks - 1) :
        /\ k + 1 <= Len(queues[i].fn)
        /\ queues[i].task[k].beh \in {"reject", "throw"}
        /\ queues[i].next[k].st = "rejected"
        /\ Called(queues[i], k + 1)

OwnOutcome(t) ==
    CASE t.beh = "resolve"             -> Fulfilled(t.val)
      [] t.beh \in {"reject", "throw"} -> Rejected(t.val)
      [] OTHER                         -> Pending

\* C3: the promise enqueue returns settles with exactly its own task's
\* outcome (the result value, or the rejection reason); the rejection is
\* swallowed on the internal chain only.
C3_OwnOutcome ==
    \A i \in QueueIds :
        LET q == queues[i]
        IN  \A k \in 1..Len(q.fn) :
                /\ Settled(Returned(q, k)) => Returned(q, k) = OwnOutcome(q.task[k])
                /\ q.fn[k] = "returned" => Returned(q, k) = OwnOutcome(q.task[k])
                /\ q.tail[k].st # "rejected"

\* a caller holds a rejection with its own reason while the chain recovered
\* and the next caller holds its own result
C3_Witness ==
    \E i \in QueueIds :
        LET q == queues[i]
        IN  /\ Len(q.fn) >= 2
            /\ q.task[1].beh = "reject"
            /\ Returned(q, 1) = Rejected(q.task[1].val)
            /\ q.tail[1] = Fulfilled(Undefined)
            /\ q.task[2].val # q.task[1].val
            /\ Returned(q, 2) = Fulfilled(q.task[2].val)

\* task k of q is the next to be called and nothing of its own queue is in
\* its way: the tasks before it have settled and the chain has recovered
NextInLine(q, k) ==
    /\ k <= Len(q.fn) /\ ~Called(q, k) /\ q.fn[k] # "skipped"
    /\ \A j \in 1..(k - 1) : q.fn[j] = "returned" /\ Settled(q.tail[j])

\* C26: queues made by separate makeQueue() calls do not interfere: each
\* holds its own tasks in its own order, and a task of one queue that is slow,
\* never settles or rejects neither delays nor reorders nor fails the tasks
\* of another queue.
C26_IndependentQueues ==
    \A i \in QueueIds :
        LET q == queues[i]
        IN  /\ \A k \in 1..Len(q.fn) :
                 /\ q.task[k].val = TaskValue(i, k)
                 /\ NextInLine(q, k) => ENABLED TaskStart(i, k)
                 /\ Settled(Returned(q, k)) => Returned(q, k) = OwnOutcome(q.task[k])
            /\ \A a, b \in 1..Len(q.log) : a < b => q.log[a][1] <= q.log[b][1]

\* one queue is held by a task that never settles, while the other queue has
\* run a rejecting task and the task after it to their ends
C26_Witness ==
    \E i \in QueueIds, j \in QueueIds :
        /\ i # j
        /\ Len(queues[i].fn) = 1 /\ queues[i].task[1].beh = "never"
        /\ queues[i].fn[1] = "running"
        /\ Len(queues[j].fn) = 2 /\ queues[j].task[1].beh = "reject"
        /\ Returned(queues[j], 1) = Rejected(queues[j].task[1].val)
        /\ Returned(queues[j], 2) = Fulfilled(queues[j].task[2].val)

\* ------------------------------------------------------------------------
\* FigurerServer (server.js 50-363), from the moment start() has resolved
\*   srv.proc        "running" | "exited" | "crashed": the node process
\*   srv.owns        _ownsBrowser
\*   srv.launched    start() launched the browser itself (puppeteer.launch)
\*   srv.browserRef  _browser is not null;  srv.pageRef  _page is not null
\*   srv.serverRef   _server is not null;   srv.listening  it accepts requests
\*   srv.idleTimer   _idleTimer is set
\*   srv.now, srv.lastActivity   Date.now() and _lastActivity, in ms
\*   srv.browser     "open" | "closed" | "disconnected": the Chrome process
\*   srv.page        the shared page: open or not, viewport, loaded content
\*   srv.shut        the shutdowns under way: DELETE /, stop() by idle timer
\*                   or by signal, each with its position
\*   conns[c]        a request: kind, parameters, pc of its handler, status
\*                   answered (0: none yet), open: the socket is still open,
\*                   startedAt: Date.now() when its handler was called,
\*                   wrote: the handler has written the file at its path
\*   srv.page.vpBy, srv.page.contentBy   the request whose handler last set
\*                   the viewport / loaded the content (0: none)
\*   srvQ            the chain of _enqueue; task k serves connection
\*                   srvQ.task[k].conn
\* ------------------------------------------------------------------------
MaxConns     == 2    \* requests the server accepts in one run
MaxShutdowns == 1    \* shutdowns (DELETE /, idle, signal) in one run
MaxNowUnits  == 6    \* the clock stops after this many half timer periods
IdleMinutes  == 1    \* options.idleMinutes of the run (default 10)

IdleCheckMs == 60000
UnitMs      == IdleCheckMs \div 2

FigureCache == {"a", "b"}

\* width="..." height="..." of the document a figure returns; a document
\* without them gets 900 x 600 (server.js 127-128)
DocSize(f) == IF f = "a" THEN [w |-> 640, h |-> 480] ELSE [w |-> 900, h |-> 600]

PrepOps == {"prep.setViewport", "prep.setContent"}
PageOps == PrepOps \cup {"png.setViewport", "png.screenshot", "png.restore",
                         "pdf.pdf", "check.evaluate", "shot.setViewport",
                         "shot.screenshot", "shot.restore",
                         "url.goto", "url.screenshot"}

\* the bodies POSTed in the runs: every format and screenshot choice for a
\* known figure, a figure that is not in the cache, a URL, an unparseable body
PostInputs ==
    [kind : {"render"}, figure : {"a"}, format : {"svg", "png", "pdf"},
     shot : {FALSE}]
    \cup [kind : {"check"}, figure : {"a"}, format : {"none"}, shot : BOOLEAN]
    \cup [kind : {"render"}, figure : {"ghost"}, format : {"pdf"}, shot : {FALSE}]
    \cup [kind : {"load-url"}, figure : {"url"}, format : {"none"},
          shot : {TRUE}]
    \cup [kind : {"badjson"}, figure : {"none"}, format : {"none"},
          shot : {FALSE}]

NewConn(in) ==
    [kind |-> in.kind, figure |-> in.figure, format |-> in.format,
     shot |-> in.shot, pc |-> "queued", status |-> 0, open |-> TRUE,
     startedAt |-> 0, wrote |-> FALSE, abandoned |-> "no"]

\* res.writeHead(status); res.end(...): the answer ends the exchange
Respond(c, status) == [c EXCEPT !.pc = "done", !.status = status, !.open = FALSE]

\* faulty variant: the handler's rejection is not answered
RespondErrorSilent(c, status) == [c EXCEPT !.pc = "done"]

\* withBody's catch: if (!res.headersSent) res.writeHead(err.status || 500)
RespondError(c, status) ==
    IF c.status = 0 THEN Respond(c, status) ELSE [c EXCEPT !.pc = "done"]

BlankPage ==
    [state |-> "open", w |-> 0, h |-> 0, dsf |-> 1, content |-> "blank",
     vpBy |-> 0, contentBy |-> 0]

\* process.env.CHROME_URL: not set; set and Chrome answers there; set and the
\* connect fails
ChromeEnvs == {"none", "reachable", "unreachable"}

\* faulty variant: the fallback launch leaves _ownsBrowser false
StartBrowserFallbackUnowned(env) ==
    [launched |-> (env # "reachable"), owns |-> (env = "none")]

\* start(): connect to CHROME_URL, or launch; what it sets _ownsBrowser to
StartBrowser(env) ==
    IF env # "none"
    THEN IF env = "reachable"
         THEN [launched |-> FALSE, owns |-> FALSE]
         ELSE [launched |-> TRUE, owns |-> TRUE]
    ELSE [launched |-> TRUE, owns |-> TRUE]

\* the server when start() has resolved; the clock is 0 when the idle timer is
\* set, startupMs after the constructor took _lastActivity
Started(env, startupMs) ==
    [up |-> TRUE, proc |-> "running", owns |-> StartBrowser(env).owns,
     launched |-> StartBrowser(env).launched,
     browserRef |-> TRUE, pageRef |-> TRUE, serverRef |-> TRUE,
     listening |-> TRUE, idleTimer |-> (IdleMinutes > 0),
     now |-> 0, lastActivity |-> 0 - startupMs, constructedAt |-> 0 - startupMs,
     browser |-> "open", page |-> BlankPage, shut |-> <<>>]

InitServer ==
    /\ queues = [i \in QueueIds |-> EmptyQueue]
    /\ cli = IdleClient
    /\ conns = <<>>
    /\ srvQ = EmptyQueue
    /\ \E env \in ChromeEnvs : srv = Started(env, 0)

Running == srv.up /\ srv.proc = "running"

\* the handler whose page operation is in flight on connection c
InPageOp(c) == conns[c].pc \in PageOps

\* the queue task that serves connection c
TaskOf(c) == CHOOSE k \in 1..Len(srvQ.task) : srvQ.task[k].conn = c

\* the handler's promise settles; withBody's catch has made it a fulfilment.
\* The reactions of next and of next.catch(() => {}) are microtasks: they run
\* before the event loop takes its next event, so tail recovers in this step.
HandlerSettled(q, k) ==
    QRecover(QSettle(q, k), k)

\* req.on('end'): parse the body, answer 400 or enqueue the handler
PostRequest(in) ==
    /\ Running /\ srv.listening
    /\ Len(conns) < MaxConns
    /\ IF in.kind = "badjson"
       THEN /\ conns' = Append(conns, Respond(NewConn(in), 400))
            /\ srvQ' = srvQ
       ELSE /\ conns' = Append(conns, NewConn(in))
            /\ srvQ' = QEnqueue(srvQ, [beh |-> "resolve", val |-> Undefined,
                                       conn |-> Len(conns) + 1])
    /\ UNCHANGED <<queues, srv, cli>>

\* the first operation a handler starts on the page
FirstOp(c) == IF c.kind = "load-url" THEN "url.goto" ELSE "prep.setViewport"

\* the queue calls the handler: it runs up to its first await. _prepPage
\* throws 404 for a figure not in the cache; the figure module may throw.
HandlerStart(k, figureOk) ==
    /\ Running
    /\ QCanStart(srvQ, k)
    /\ LET c    == srvQ.task[k].conn
           conn == [conns[c] EXCEPT !.startedAt = srv.now]
           q1   == QStart(srvQ, k)
       IN  /\ srv' = [srv EXCEPT !.lastActivity = srv.now]
           /\ IF conn.kind # "load-url" /\ conn.figure \notin FigureCache
              THEN /\ conns' = [conns EXCEPT ![c] = RespondError(conn, 404)]
                   /\ srvQ' = HandlerSettled(q1, k)
              ELSE IF conn.kind # "load-url" /\ ~figureOk
              THEN /\ conns' = [conns EXCEPT ![c] = RespondError(conn, 500)]
                   /\ srvQ' = HandlerSettled(q1, k)
              ELSE /\ conns' = [conns EXCEPT ![c] = [conn EXCEPT !.pc = FirstOp(conn)]]
                   /\ srvQ' = q1
    /\ UNCHANGED <<queues, cli>>

\* where the handler goes when the operation at pc has resolved
AfterOp(c) ==
    CASE c.pc = "prep.setViewport" -> "prep.setContent"
      [] c.pc = "prep.setContent" ->
            IF c.kind = "check" THEN "check.evaluate"
            ELSE IF c.format = "png" THEN "png.setViewport"
            ELSE IF c.format = "svg" THEN "respond"
            ELSE "pdf.pdf"
      [] c.pc = "png.setViewport"  -> "png.screenshot"
      [] c.pc = "png.screenshot"   -> "png.restore"
      [] c.pc = "png.restore"      -> "respond"
      [] c.pc = "pdf.pdf"          -> "respond"
      [] c.pc = "check.evaluate"   -> IF c.shot THEN "shot.setViewport" ELSE "respond"
      [] c.pc = "shot.setViewport" -> "shot.screenshot"
      [] c.pc = "shot.screenshot"  -> "shot.restore"
      [] c.pc = "shot.restore"     -> "respond"
      [] c.pc = "url.goto"         -> IF c.shot THEN "url.screenshot" ELSE "respond"
      [] c.pc = "url.screenshot"   -> "respond"
      [] OTHER                     -> "respond"

\* faulty variant: _prepPage leaves the viewport as the previous job left it
PageAfterNoPrepViewport(page, c) ==
    LET d == DocSize(c.figure)
    IN  CASE c.pc \in {"png.restore", "shot.restore"} ->
                [page EXCEPT !.w = d.w, !.h = d.h, !.dsf = 1]
          [] c.pc \in {"png.setViewport", "shot.setViewport"} ->
                [page EXCEPT !.w = d.w, !.h = d.h, !.dsf = 2]
          [] c.pc = "prep.setContent" -> [page EXCEPT !.content = c.figure]
          [] c.pc = "url.goto"        -> [page EXCEPT !.content = "url"]
          [] OTHER                    -> page

\* what the resolved operation did to the page
PageAfter(page, c) ==
    LET d == DocSize(c.figure)
    IN  CASE c.pc \in {"prep.setViewport", "png.restore", "shot.restore"} ->
                [page EXCEPT !.w = d.w, !.h = d.h, !.dsf = 1]
          [] c.pc \in {"png.setViewport", "shot.setViewport"} ->
                [page EXCEPT !.w = d.w, !.h = d.h, !.dsf = 2]
          [] c.pc = "prep.setContent" -> [page EXCEPT !.content = c.figure]
          [] c.pc = "url.goto"        -> [page EXCEPT !.content = "url"]
          [] OTHER                    -> page

\* the request whose handler set the viewport or loaded the content
Stamped(page, pc, c) ==
    CASE pc \in {"prep.setViewport", "png.setViewport", "png.restore",
                 "shot.setViewport", "shot.restore"} -> [page EXCEPT !.vpBy = c]
      [] pc \in {"prep.setContent", "url.goto"}      -> [page EXCEPT !.contentBy = c]
      [] OTHER                                       -> page

\* page.pdf({ path: outputPath }) writes the file itself
OpWritesFile(c) == c.pc = "pdf.pdf"

\* the synchronous file operation that follows the resolved operation:
\* fs.writeFileSync of the document, of the screenshot, or normalizePdfDates
SyncFileOp(c) ==
    \/ c.pc = "prep.setContent" /\ c.kind = "render" /\ c.format = "svg"
    \/ c.pc \in {"png.screenshot", "shot.screenshot", "url.screenshot", "pdf.pdf"}

\* the awaited page operation of connection c resolves (ok) or rejects; on a
\* closed page or browser it can only reject. fsOk: the synchronous file
\* operation that follows it, if any, does not throw.
PageOpDone(c, ok, fsOk) ==
    /\ Running
    /\ c \in 1..Len(conns)
    /\ InPageOp(c)
    /\ ok => (srv.page.state = "open" /\ srv.browser = "open")
    /\ LET conn == conns[c]
           k    == TaskOf(c)
           c1   == [conn EXCEPT !.wrote = @ \/ OpWritesFile(conn)]
           c2   == [c1 EXCEPT !.wrote = @ \/ (SyncFileOp(conn) /\ c1.pc # "pdf.pdf")]
       IN  IF ~ok
           THEN /\ conns' = [conns EXCEPT ![c] = RespondError(conn, 500)]
                /\ srvQ' = HandlerSettled(srvQ, k)
                /\ srv' = srv
           ELSE /\ srv' = [srv EXCEPT !.page = Stamped(PageAfter(srv.page, conn), conn.pc, c)]
                /\ IF SyncFileOp(conn) /\ ~fsOk
                   THEN /\ conns' = [conns EXCEPT ![c] = RespondError(c1, 500)]
                        /\ srvQ' = HandlerSettled(srvQ, k)
                   ELSE IF AfterOp(conn) = "respond"
                   THEN /\ conns' = [conns EXCEPT ![c] = Respond(c2, 200)]
                        /\ srvQ' = HandlerSettled(srvQ, k)
                   ELSE /\ conns' = [conns EXCEPT ![c] = [c2 EXCEPT !.pc = AfterOp(conn)]]
                        /\ srvQ' = srvQ
    /\ UNCHANGED <<queues, cli>>

\* ------------------------------------------------------------------------
\* Shutdown: DELETE / (server.js 193-201) and stop() (server.js 352-362),
\* called by the idle timer (166-174) and by SIGINT/SIGTERM
\* (d3figurer-server.js 32-33)
\* ------------------------------------------------------------------------
Drained == \A c \in 1..Len(conns) : ~conns[c].open

\* _ownsBrowser ? _browser.close() : _page.close().then(() => _browser.disconnect())
SessionReleased(s) ==
    [s EXCEPT !.page.state = "closed",
              !.browser = IF s.owns THEN "closed" ELSE "disconnected"]

\* stop() up to its first await (or to its end), in server state s
StopFrom(s, by) ==
    LET s1 == [s EXCEPT !.idleTimer = FALSE]
    IN  IF s1.serverRef
        THEN [s1 EXCEPT !.listening = FALSE,
                        !.shut = Append(@, [by |-> by, pc |-> "srvclosing"])]
        ELSE IF s1.browserRef
        THEN [s1 EXCEPT !.shut = Append(@, [by |-> by, pc |-> "closing"])]
        ELSE [s1 EXCEPT !.shut = Append(@, [by |-> by, pc |-> "done"]),
                        !.proc = "exited"]

\* DELETE /: answer 200, release the session at once, then close the server
DeleteRequest ==
    /\ Running /\ srv.listening
    /\ Len(conns) < MaxConns
    /\ Len(srv.shut) < MaxShutdowns
    /\ conns' = Append(conns, Respond(NewConn([kind |-> "delete", figure |-> "none",
                                                format |-> "none", shot |-> FALSE]), 200))
    /\ srv' = IF srv.browserRef /\ (srv.owns \/ srv.pageRef)
              THEN [srv EXCEPT !.shut = Append(@, [by |-> "delete", pc |-> "closing"])]
              ELSE [srv EXCEPT !.proc = "crashed"]
    /\ UNCHANGED <<queues, srvQ, cli>>

\* SIGINT / SIGTERM: server.stop().then(() => process.exit(0))
Signal ==
    /\ Running
    /\ Len(srv.shut) < MaxShutdowns
    /\ srv' = StopFrom(srv, "signal")
    /\ UNCHANGED <<queues, conns, srvQ, cli>>

\* faulty variant: every check of the timer finds the server idle
IdleExpiredAlways(s) == TRUE

\* the setInterval callback: stop when idle for more than idleMinutes
IdleExpired(s) == s.now - s.lastActivity > IdleMinutes * 60000

\* time passes; every IdleCheckMs the idle timer's callback runs
Tick ==
    /\ Running
    /\ srv.now < MaxNowUnits * UnitMs
    /\ LET s1 == [srv EXCEPT !.now = @ + UnitMs]
       IN  srv' = IF s1.idleTimer /\ s1.now % IdleCheckMs = 0 /\ IdleExpired(s1)
                  THEN StopFrom(s1, "idle")
                  ELSE s1
    /\ UNCHANGED <<queues, conns, srvQ, cli>>

\* the session's close resolves (or, on a session already released, rejects)
CloseDone(i, ok) ==
    /\ Running
    /\ i \in 1..Len(srv.shut)
    /\ srv.shut[i].pc = "closing"
    /\ (srv.page.state = "open" /\ srv.browser = "open") => ok
    /\ LET s1 == IF ok THEN SessionReleased(srv) ELSE srv
       IN  srv' =
             IF srv.shut[i].by = "delete"
             THEN \* done.then(() => this._server.close(() => process.exit(0)))
                  IF ok /\ s1.serverRef
                  THEN [s1 EXCEPT !.listening = FALSE, !.shut[i].pc = "srvclosing"]
                  ELSE [s1 EXCEPT !.proc = "crashed", !.shut[i].pc = "done"]
             ELSE \* await done.catch(() => {}); _browser = null; _page = null
                  [s1 EXCEPT !.browserRef = FALSE, !.pageRef = FALSE,
                             !.shut[i].pc = "done", !.proc = "exited"]
    /\ UNCHANGED <<queues, conns, srvQ, cli>>

\* the callback of _server.close: every connection has ended
ServerClosed(i) ==
    /\ Running
    /\ i \in 1..Len(srv.shut)
    /\ srv.shut[i].pc = "srvclosing"
    /\ Drained
    /\ srv' =
         IF srv.shut[i].by = "delete"
         THEN [srv EXCEPT !.shut[i].pc = "done", !.proc = "exited"]
         ELSE LET s1 == [srv EXCEPT !.serverRef = FALSE]
              IN  IF s1.browserRef
                  THEN [s1 EXCEPT !.shut[i].pc = "closing"]
                  ELSE [s1 EXCEPT !.shut[i].pc = "done", !.proc = "exited"]
    /\ UNCHANGED <<queues, conns, srvQ, cli>>

\* the client gives up on a request that has no answer yet. The server reads
\* the state of a socket only when _server.close waits for the connections to
\* end, so the client's going is taken from then on.
ClientGone(c) ==
    /\ Running
    /\ ~srv.listening
    /\ c \in 1..Len(conns)
    /\ conns[c].open /\ conns[c].status = 0
    /\ conns' = [conns EXCEPT ![c].open = FALSE]
    /\ UNCHANGED <<queues, srv, srvQ, cli>>

NextServer ==
    \/ \E in \in PostInputs : PostRequest(in)
    \/ \E k \in 1..MaxConns, figureOk \in BOOLEAN : HandlerStart(k, figureOk)
    \/ \E c \in 1..MaxConns, ok, fsOk \in BOOLEAN : PageOpDone(c, ok, fsOk)
    \/ DeleteRequest
    \/ Signal
    \/ \E i \in 1..(MaxShutdowns + 1), ok \in BOOLEAN : CloseDone(i, ok)
    \/ \E i \in 1..(MaxShutdowns + 1) : ServerClosed(i)
    \/ \E c \in 1..MaxConns : ClientGone(c)

SpecServer == InitServer /\ [][NextServer]_vars

\* the requests whose handler has a page operation in flight
JobsInPageOp == {c \in 1..Len(conns) : InPageOp(c)}

\* ------------------------------------------------------------------------
\* SpecIdle: the server with its clock running. One kind of job, so that the
\* idle timer (checked every IdleCheckMs) is followed over several periods.
\* ------------------------------------------------------------------------
IdleInputs ==
    [kind : {"render"}, figure : {"a"}, format : {"svg"}, shot : {FALSE}]

NextIdle ==
    \/ \E in \in IdleInputs : PostRequest(in)
    \/ \E k \in 1..MaxConns, figureOk \in BOOLEAN : HandlerStart(k, figureOk)
    \/ \E c \in 1..MaxConns, ok, fsOk \in BOOLEAN : PageOpDone(c, ok, fsOk)
    \/ DeleteRequest
    \/ Signal
    \/ Tick
    \/ \E i \in 1..(MaxShutdowns + 1), ok \in BOOLEAN : CloseDone(i, ok)
    \/ \E i \in 1..(MaxShutdowns + 1) : ServerClosed(i)
    \/ \E c \in 1..MaxConns : ClientGone(c)

\* the time start() takes between the constructor and the idle timer
StartupDelays == {0, UnitMs}

InitIdle ==
    /\ queues = [i \in QueueIds |-> EmptyQueue]
    /\ cli = IdleClient
    /\ conns = <<>>
    /\ srvQ = EmptyQueue
    /\ \E env \in ChromeEnvs, d \in StartupDelays : srv = Started(env, d)

SpecIdle == InitIdle /\ [][NextIdle]_vars

\* ------------------------------------------------------------------------
\* Claims about the idle timer and about shutdown
\* ------------------------------------------------------------------------
IdleWindow == IdleMinutes * 60000

\* the step in which the idle timer's callback calls stop()
IdleStopStep ==
    /\ Len(srv'.shut) = Len(srv.shut) + 1
    /\ srv'.shut[Len(srv'.shut)].by = "idle"

\* a step in which the idle timer's callback runs
TimerCheckStep ==
    srv'.now # srv.now /\ srv.idleTimer /\ srv'.now % IdleCheckMs = 0

Jobs == {c \in 1..Len(conns) : conns[c].kind \in {"render", "check", "load-url"}}
StartedJobs == {c \in Jobs : conns[c].pc # "queued"}
WaitingJobs == {c \in Jobs : conns[c].pc = "queued"}

IdleShutdowns == {i \in 1..Len(srv.shut) : srv.shut[i].by = "idle"}

C12_NoIdleStopWhileBusy ==
    [][IdleStopStep => (WaitingJobs = {} /\ JobsInPageOp = {})]_vars

SessionOpen == srv.page.state = "open" /\ srv.browser = "open"
Closers == {i \in 1..Len(srv.shut) : srv.shut[i].pc = "closing"}

\* C13: shutdown is idempotent: issued more than once, the session is
\* released once, no close is attempted on a session already closed, and no
\* error is raised.
C13_ShutdownIdempotent ==
    srv.up =>
       /\ srv.proc # "crashed"
       /\ Cardinality(Closers) <= 1
       /\ Closers # {} => SessionOpen

\* C14: a browser the server did not launch is never terminated by it:
\* _ownsBrowser is true exactly when start() launched the browser (no
\* CHROME_URL, or the fallback after a failed connect), the browser is closed
\* only if owned, and otherwise the page is closed and the browser
\* disconnected.
C14_ExternalWorkerKept ==
    srv.up =>
       /\ srv.owns <=> srv.launched
       /\ srv.browser = "closed" => srv.launched
       /\ srv.browser = "disconnected" =>
              (~srv.launched /\ srv.page.state = "closed")

C14_Witness ==
    /\ srv.up /\ srv.proc = "exited"
    /\ ~srv.launched /\ srv.browser = "disconnected"
    /\ \E i \in 1..Len(srv.shut) : srv.shut[i].by = "idle"

\* C15: every POST /render, /check or /load-url with a parseable body gets
\* exactly one response, 200 or the status of the error, when its handler
\* ends at whatever step; a failing job neither crashes the server nor keeps
\* a later request from being served.
C15_OneResponse ==
    /\ [](srv.up =>
            /\ \A c \in Jobs :
                  /\ conns[c].pc = "done" => conns[c].status \in {200, 404, 500}
                  /\ conns[c].status # 0 => conns[c].pc = "done"
                  /\ srv.proc = "exited" => (conns[c].status # 0 \/ ~conns[c].open)
            /\ srv.proc = "crashed" => srv.shut # <<>>
            /\ (Running /\ WaitingJobs # {} /\ JobsInPageOp = {}) =>
                  \E k \in 1..Len(srvQ.task) : QCanStart(srvQ, k))
    /\ [][\A c \in 1..Len(conns) :
            conns[c].status # 0 => conns'[c].status = conns[c].status]_vars

C15_Witness ==
    /\ Running /\ srv.shut = <<>>
    /\ \E c \in Jobs, d \in Jobs :
          /\ c < d
          /\ conns[c].status = 500 /\ conns[c].figure \in FigureCache
          /\ conns[d].status = 200

UnknownFigure(c) ==
    conns[c].kind \in {"render", "check"} /\ conns[c].figure \notin FigureCache

\* C16: a render or check naming a figure that is not in the cache is
\* answered 404 at once: it does not wait behind the jobs in the queue, nor
\* for the job in flight.
C16_NotFoundImmediate ==
    srv.up =>
       \A c \in Jobs :
          (UnknownFigure(c) /\ conns[c].status = 0) =>
             \A d \in Jobs : d < c => ~InPageOp(d)

Renders == {c \in Jobs : conns[c].kind = "render"}

\* C17: a render writes its file when it answers ok, and an error response
\* means no file was created or modified at outputPath, whatever the format
\* and the step that failed.
C17_ArtifactOnlyOnOk ==
    srv.up =>
       \A c \in Renders :
          /\ conns[c].status = 200 => conns[c].wrote
          /\ conns[c].status \notin {0, 200} => ~conns[c].wrote

\* C18: a render with format svg bypasses the browser: its handler performs
\* no viewport change, content load or other operation on the shared page.
C18_SvgBypassesWorker ==
    srv.up =>
       \A c \in Renders :
          conns[c].format = "svg" =>
             /\ ~InPageOp(c)
             /\ srv.page.vpBy # c /\ srv.page.contentBy # c

CaptureOps == {"png.screenshot", "pdf.pdf", "check.evaluate",
               "shot.screenshot", "url.screenshot"}

\* C19: every render, check and load-url job sets the viewport and loads its
\* own content before it captures or evaluates: no capture uses a viewport
\* or content left by another job.
C19_SurfaceOverwritten ==
    srv.up =>
       \A c \in Jobs :
          conns[c].pc \in CaptureOps =>
             (srv.page.vpBy = c /\ srv.page.contentBy = c)

\* ------------------------------------------------------------------------
\* Figure modules: _loadFigureModules (server.js 77-112) and the reload of
\* _prepPage (server.js 115-126). In SpecReload srv holds
\*   disk[f]          figure.js of figure f: ver, the content it has now, and
\*                    ok, whether require() can load it
\*   requireCache[f]  the version in Node's require.cache (NoModule: none)
\*   figureCache[f]   the version whose function is in _figureCache
\*   log              the jobs so far: figure, reload, status, and doc, the
\*                    version of the module that produced the document
\* ------------------------------------------------------------------------
MaxEdits == 2    \* changes of one figure.js in one run
MaxJobs  == 3    \* jobs that reach _prepPage in one run

ModuleDirs == {"a", "constructor"}
NoModule   == 0 - 1

\* the names every object inherits from Object.prototype
InheritedNames == {"constructor"}

\* this._figureCache[figure] of a cache made as {}: the own entry, or what
\* the name inherits
Lookup(cache, f) ==
    IF cache[f] # NoModule THEN "own"
    ELSE IF f \in InheritedNames THEN "inherited"
    ELSE "undefined"

\* require(figPath): the cached module, or the file as it is on disk
Require(disk, rc, f) ==
    IF rc[f] # NoModule THEN [ok |-> TRUE, ver |-> rc[f]]
    ELSE [ok |-> disk[f].ok, ver |-> disk[f].ver]

\* at startup every figure.js is required; one that fails is left out
LoadFigureModules(disk) ==
    [f \in ModuleDirs |-> IF disk[f].ok THEN disk[f].ver ELSE NoModule]

\* faulty variant: the module stays in require.cache
KeepRequireCache(rc, f) == rc

\* delete require.cache[require.resolve(figPath)]
DeleteRequireCache(rc, f) == [rc EXCEPT ![f] = NoModule]

InitReload ==
    /\ queues = [i \in QueueIds |-> EmptyQueue]
    /\ cli = IdleClient
    /\ conns = <<>>
    /\ srvQ = EmptyQueue
    /\ \E oks \in [ModuleDirs -> BOOLEAN] :
         LET disk == [f \in ModuleDirs |-> [ver |-> 0, ok |-> oks[f]]]
         IN  srv = [up |-> FALSE, disk |-> disk,
                    requireCache |-> LoadFigureModules(disk),
                    figureCache |-> LoadFigureModules(disk),
                    log |-> <<>>]

\* the backing file of figure f changes; the new file may fail to load
FileChange(f, ok) ==
    /\ srv.disk[f].ver < MaxEdits
    /\ srv' = [srv EXCEPT !.disk[f] = [ver |-> @.ver + 1, ok |-> ok]]
    /\ UNCHANGED <<queues, conns, srvQ, cli>>

JobDone(s, f, reload, status, doc) ==
    [s EXCEPT !.log = Append(@, [figure |-> f, reload |-> reload,
                                 status |-> status, doc |-> doc])]

\* _prepPage up to the call of the figure's function
PrepModule(f, reload) ==
    /\ Len(srv.log) < MaxJobs
    /\ srv' =
         IF Lookup(srv.figureCache, f) = "undefined"
         THEN JobDone(srv, f, reload, 404, NoModule)
         ELSE IF reload
         THEN LET rc  == DeleteRequireCache(srv.requireCache, f)
                  mod == Require(srv.disk, rc, f)
              IN  IF mod.ok
                  THEN JobDone([srv EXCEPT !.requireCache = [rc EXCEPT ![f] = mod.ver],
                                           !.figureCache[f] = mod.ver],
                               f, reload, 200, mod.ver)
                  ELSE JobDone([srv EXCEPT !.requireCache = rc],
                               f, reload, 500, NoModule)
         ELSE IF Lookup(srv.figureCache, f) = "inherited"
         THEN \* the inherited function returns no string: svgHtml.match throws
              JobDone(srv, f, reload, 500, NoModule)
         ELSE JobDone(srv, f, reload, 200, srv.figureCache[f])
    /\ UNCHANGED <<queues, conns, srvQ, cli>>

NextReload ==
    \/ \E f \in ModuleDirs, ok \in BOOLEAN : FileChange(f, ok)
    \/ \E f \in ModuleDirs, reload \in BOOLEAN : PrepModule(f, reload)

SpecReload == InitReload /\ [][NextReload]_vars

\* the version loaded at startup or by the last successful reload of f
LastLoaded(log, f) ==
    LET done == {i \in 1..Len(log) :
                   log[i].figure = f /\ log[i].reload /\ log[i].status = 200}
    IN  IF done = {} THEN 0
        ELSE log[CHOOSE i \in done : \A j \in done : j <= i].doc

JobStep == Len(srv'.log) = Len(srv.log) + 1

C4_SingleFlight ==
    /\ Cardinality(JobsInPageOp) <= 1
    /\ Cardinality({k \in 1..Len(srvQ.fn) : srvQ.fn[k] = "running"}) <= 1
    /\ \A k \in 1..(Len(srvQ.fn) - 1) :
           Called(srvQ, k + 1) => srvQ.fn[k] = "returned"

\* a request arrived while the job before it is on the page, and waits
C4_Witness ==
    /\ Len(srvQ.fn) >= 2
    /\ InPageOp(srvQ.task[1].conn)
    /\ srvQ.fn[2] = "waiting"
    /\ conns[srvQ.task[2].conn].figure \in FigureCache

ClosingSession == {i \in 1..Len(srv.shut) : srv.shut[i].pc = "closing"}

\* C5: the queue is the only path to the session: no shutdown (DELETE /,
\* stop() by the idle timer or by a signal) has a close of the page or the
\* browser in flight while a queued job is operating on the page.
C5_QueueOnlyPath ==
    ClosingSession # {} => JobsInPageOp = {}

\* ------------------------------------------------------------------------
\* FigurerClient (client.js 22-202)
\*   cli.op         the method called: "renderBatch" (figures 1..n), or
\*                  "render", "checkFigure", "loadUrl" (one request)
\*   cli.pc         "loop" | "waiting" | "done"
\*   cli.i          renderBatch: index of the figure of the current iteration
\*   cli.elapsed    Date.now() - t0 of the request awaited, in ms
\*   cli.timed      the request awaited was made by _requestTimed
\*   cli.submitted  the figures of the requests sent, in order
\*   cli.trace      what happened to each request: elapsed time and cause of
\*                  its end ("response", "neterror", "timer"), status, message
\*   cli.hangCalls  the calls of _logHang;  cli.file  the hang log on disk
\*   cli.restarts   the jobs for which _restartServer was called
\*   cli.errors     renderBatch's errors array;  cli.result  what it returned
\* Messages are sequences of words, so that includes() is a search.
\* ------------------------------------------------------------------------
MaxBatch == 2     \* figures given to renderBatch

hangThresholdMs == 5000
hangHardTimeout == 30000

FigName(i) == <<"fig", i>>

\* the moments at which the comparisons of renderBatch can change
TimePoints ==
    {0, hangThresholdMs, hangThresholdMs + 1, hangHardTimeout - 101,
     hangHardTimeout - 100, hangHardTimeout, hangHardTimeout + 1}

NextPoint(t) ==
    CHOOSE u \in TimePoints : u > t /\ \A v \in TimePoints : v > t => u <= v

MaxPoint == CHOOSE u \in TimePoints : \A v \in TimePoints : v <= u

\* what the server's answer can carry: r.status and r.body.error
NoError == <<>>
Answers ==
    {[status |-> 200, error |-> NoError],
     [status |-> 500, error |-> NoError],
     [status |-> 500, error |-> <<"Navigation", "failed">>],
     [status |-> 500, error |-> <<"Runtime.callFunctionOn", "timed out">>]}

NetErrors == {<<"connect", "ECONNREFUSED">>}

\* new Error(`render timed out after ${hardTimeoutMs / 1000}s`)
TimeoutMessage(hardTimeoutMs) ==
    <<"render", "timed out", "after", ToString(hardTimeoutMs \div 1000), "s">>

\* err.message.includes('timed out')
IncludesTimedOut(msg) == \E j \in 1..Len(msg) : msg[j] = "timed out"

\* r.body?.error || `HTTP ${r.status}`
ErrorMessage(a) == IF a.error # NoError THEN a.error ELSE <<"HTTP", ToString(a.status)>>

\* faulty variant: the timer is never started
TimerArmedNever(hardTimeoutMs) == FALSE

\* _requestTimed: if (!hardTimeoutMs) return req; else race req with a timer
TimerArmed(hardTimeoutMs) == hardTimeoutMs # 0

\* setTimeout(..., hardTimeoutMs) is due
TimerDue(c) == c.timed /\ TimerArmed(hangHardTimeout) /\ c.elapsed >= hangHardTimeout

\* faulty variant: a completed request is never taken for slow
SlowNever(elapsed) == FALSE

\* if (elapsed > hangThresholdMs)
Slow(elapsed) == elapsed > hangThresholdMs

\* if (r.status !== 200) throw
ResponseThrows(a) == a.status # 200

\* if (elapsed >= hangHardTimeout - 100 || err.message.includes('timed out'))
TakenForHang(elapsed, msg) ==
    elapsed >= hangHardTimeout - 100 \/ IncludesTimedOut(msg)

\* '# Render Hangs Log\n\nRenders that exceeded the threshold.\n\n'
Header == [job |-> 0, figure |-> <<"# Render Hangs Log">>, durationMs |-> 0,
           reason |-> <<>>]

\* faulty variant: every call writes the header before its entry
LogHangHeaderAlways(c, figure, durationMs, reason) ==
    LET rec == [job |-> c.i, figure |-> figure, durationMs |-> durationMs,
                reason |-> reason]
    IN  [c EXCEPT !.hangCalls = Append(@, rec),
                  !.file = IF c.file.writable
                           THEN [@ EXCEPT !.exists = TRUE,
                                          !.text = @ \o <<Header, rec>>]
                           ELSE @]

\* _logHang: the header if the file does not exist, then the entry; an
\* append that fails is swallowed
LogHang(c, figure, durationMs, reason) ==
    LET rec == [job |-> c.i, figure |-> figure, durationMs |-> durationMs,
                reason |-> reason]
        hdr == IF c.file.exists THEN <<>> ELSE <<Header>>
    IN  [c EXCEPT !.hangCalls = Append(@, rec),
                  !.file = IF c.file.writable
                           THEN [@ EXCEPT !.exists = TRUE,
                                          !.text = @ \o hdr \o <<rec>>]
                           ELSE @]

\* _restartServer: called; with no serverShPath it only reports
RestartServer(c) == [c EXCEPT !.restarts = Append(@, c.i)]

\* faulty variant: the batch stops at the first job taken for a hang
AfterJobStopOnHang(c, hang) ==
    [c EXCEPT !.pc = "loop", !.i = IF hang THEN c.n + 1 ELSE @ + 1]

\* the for loop goes on to the next figure
AfterJob(c, hang) == [c EXCEPT !.pc = "loop", !.i = @ + 1]

\* the catch block of renderBatch (client.js 168-179)
CatchJob(c, msg, hung) ==
    LET name == FigName(c.i)
        c1 == IF TakenForHang(c.elapsed, msg)
              THEN RestartServer(LogHang(c, name, c.elapsed, msg))
              ELSE IF Slow(c.elapsed) /\ ~hung
              THEN LogHang(c, name, c.elapsed, msg)
              ELSE c
    IN  AfterJob([c1 EXCEPT !.errors = Append(@, [name |-> name, message |-> msg])],
                 TakenForHang(c.elapsed, msg))

\* the try block after the await (client.js 159-167)
TryJob(c, a) ==
    LET name == FigName(c.i)
        hung == Slow(c.elapsed)
        c1   == IF hung
                THEN LogHang(c, name, c.elapsed, <<"slow render (completed)">>)
                ELSE c
    IN  IF ResponseThrows(a) THEN CatchJob(c1, ErrorMessage(a), hung)
        ELSE AfterJob(c1, FALSE)

Traced(c, cause, status, msg) ==
    [c EXCEPT !.trace = Append(@, [figure |-> FigName(c.i), elapsed |-> c.elapsed,
                                   cause |-> cause, status |-> status,
                                   message |-> msg])]

InitClient ==
    /\ queues = [i \in QueueIds |-> EmptyQueue]
    /\ srv = IdleServer
    /\ conns = <<>>
    /\ srvQ = EmptyQueue
    /\ \E op \in {"renderBatch", "render", "checkFigure", "loadUrl"},
          n \in 0..MaxBatch, exists \in BOOLEAN, writable \in BOOLEAN :
         /\ op # "renderBatch" => n = 1
         /\ cli = [up |-> TRUE, op |-> op, n |-> n, pc |-> "loop", i |-> 1,
                   elapsed |-> 0, timed |-> FALSE,
                   submitted |-> <<>>, trace |-> <<>>, hangCalls |-> <<>>,
                   file |-> [exists |-> exists, writable |-> writable,
                             text |-> IF exists THEN <<Header>> ELSE <<>>],
                   restarts |-> <<>>, errors |-> <<>>,
                   result |-> [state |-> "pending"]]

\* renderBatch: t0 = Date.now(); this._requestTimed('POST', '/render', ...)
BatchSubmit ==
    /\ cli.up /\ cli.op = "renderBatch"
    /\ cli.pc = "loop" /\ cli.i <= cli.n
    /\ cli' = [cli EXCEPT !.pc = "waiting", !.elapsed = 0, !.timed = TRUE,
                          !.submitted = Append(@, FigName(cli.i))]
    /\ UNCHANGED <<queues, srv, conns, srvQ>>

\* time passes while a request is awaited; a timer that is due fires first
ClientTick ==
    /\ cli.up /\ cli.pc = "waiting"
    /\ ~TimerDue(cli)
    /\ cli.elapsed < MaxPoint
    /\ cli' = [cli EXCEPT !.elapsed = NextPoint(@)]
    /\ UNCHANGED <<queues, srv, conns, srvQ>>

\* the request resolves with the server's answer
BatchResponse(a) ==
    /\ cli.up /\ cli.op = "renderBatch" /\ cli.pc = "waiting"
    /\ cli' = TryJob(Traced(cli, "response", a.status, ErrorMessage(a)), a)
    /\ UNCHANGED <<queues, srv, conns, srvQ>>

\* the request rejects: req.on('error', reject)
BatchRequestError(msg) ==
    /\ cli.up /\ cli.op = "renderBatch" /\ cli.pc = "waiting"
    /\ cli' = CatchJob(Traced(cli, "neterror", 0, msg), msg, FALSE)
    /\ UNCHANGED <<queues, srv, conns, srvQ>>

\* the timer of _requestTimed fires and wins the race
BatchTimerFire ==
    /\ cli.up /\ cli.op = "renderBatch" /\ cli.pc = "waiting"
    /\ TimerDue(cli)
    /\ LET msg == TimeoutMessage(hangHardTimeout)
       IN  cli' = CatchJob(Traced(cli, "timer", 0, msg), msg, FALSE)
    /\ UNCHANGED <<queues, srv, conns, srvQ>>

\* after the loop: return { ok, total, errors }
BatchFinish ==
    /\ cli.up /\ cli.op = "renderBatch"
    /\ cli.pc = "loop" /\ cli.i > cli.n
    /\ cli' = [cli EXCEPT !.pc = "done",
                          !.result = [state |-> "returned",
                                      ok |-> cli.n - Len(cli.errors),
                                      total |-> cli.n, errors |-> cli.errors]]
    /\ UNCHANGED <<queues, srv, conns, srvQ>>

\* render, checkFigure, loadUrl: await this.request('POST', ...), no timer
CallSubmit ==
    /\ cli.up /\ cli.op # "renderBatch"
    /\ cli.pc = "loop" /\ cli.i <= cli.n
    /\ cli' = [cli EXCEPT !.pc = "waiting", !.elapsed = 0, !.timed = FALSE,
                          !.submitted = Append(@, FigName(cli.i))]
    /\ UNCHANGED <<queues, srv, conns, srvQ>>

\* if (r.status !== 200) throw new Error(`... failed: ...`); return r.body
CallResponse(a) ==
    /\ cli.up /\ cli.op # "renderBatch" /\ cli.pc = "waiting"
    /\ cli' = [Traced(cli, "response", a.status, ErrorMessage(a)) EXCEPT
                 !.pc = "done", !.i = @ + 1,
                 !.result = IF a.status # 200
                            THEN [state |-> "thrown",
                                  message |-> <<"failed:">> \o ErrorMessage(a)]
                            ELSE [state |-> "returned"]]
    /\ UNCHANGED <<queues, srv, conns, srvQ>>

CallRequestError(msg) ==
    /\ cli.up /\ cli.op # "renderBatch" /\ cli.pc = "waiting"
    /\ cli' = [Traced(cli, "neterror", 0, msg) EXCEPT
                 !.pc = "done", !.i = @ + 1,
                 !.result = [state |-> "thrown", message |-> msg]]
    /\ UNCHANGED <<queues, srv, conns, srvQ>>

NextClient ==
    \/ BatchSubmit
    \/ ClientTick
    \/ \E a \in Answers : BatchResponse(a)
    \/ \E msg \in NetErrors : BatchRequestError(msg)
    \/ BatchTimerFire
    \/ BatchFinish
    \/ CallSubmit
    \/ \E a \in Answers : CallResponse(a)
    \/ \E msg \in NetErrors : CallRequestError(msg)

SpecClient == InitClient /\ [][NextClient]_vars

\* ------------------------------------------------------------------------
\* Claims about the client
\* ------------------------------------------------------------------------
InBatch == cli.up /\ cli.op = "renderBatch"

Failed(t) == t.cause # "response" \/ t.status # 200

FailedBefore(j) == {m \in 1..j : Failed(cli.trace[m])}

HangCallsOf(j) == {m \in 1..Len(cli.hangCalls) : cli.hangCalls[m].job = j}

RestartsOf(j) == {m \in 1..Len(cli.restarts) : cli.restarts[m] = j}

TimedOutJobs == {j \in 1..Len(cli.trace) : cli.trace[j].cause = "timer"}

\* C6: a renderBatch job whose request does not resolve is abandoned when
\* hangHardTimeout has elapsed, not earlier and not never: the request rejects
\* with the 'timed out' error, a HangRecord with the figure and the elapsed
\* time is logged (and appended to the log file, if it can be written), and
\* the figure is in errors with the timeout message.
C6_HardTimeoutAbandons ==
    InBatch =>
        /\ cli.pc = "waiting" => cli.elapsed <= hangHardTimeout
        /\ \A j \in TimedOutJobs :
             LET t   == cli.trace[j]
                 rec == [job |-> j, figure |-> FigName(j),
                         durationMs |-> hangHardTimeout,
                         reason |-> TimeoutMessage(hangHardTimeout)]
             IN  /\ t.elapsed = hangHardTimeout
                 /\ IncludesTimedOut(t.message)
                 /\ \E m \in HangCallsOf(j) : cli.hangCalls[m] = rec
                 /\ cli.file.writable =>
                        \E m \in 1..Len(cli.file.text) : cli.file.text[m] = rec
                 /\ cli.errors[Cardinality(FailedBefore(j))] =
                        [name |-> FigName(j), message |-> TimeoutMessage(hangHardTimeout)]

\* the second job of a batch hit the hard timeout and the batch has returned
C6_Witness ==
    /\ InBatch /\ cli.pc = "done"
    /\ 2 \in TimedOutJobs
    /\ cli.file.writable
    /\ ~Failed(cli.trace[1])

\* C7: every job submitted through the client (render, checkFigure, loadUrl
\* and each renderBatch job) is under the hard timeout: no request is still
\* awaited once more than hangHardTimeout has elapsed.
C7_EveryJobTimed ==
    (cli.up /\ cli.pc = "waiting") => cli.elapsed <= hangHardTimeout

\* C8: the client restarts the server for a job only when the job exceeded
\* the hard threshold: a job that ended before it with an answer of the
\* server, whatever its message, causes no call of _restartServer.
C8_RestartOnlyOnHardTimeout ==
    InBatch =>
        \A j \in 1..Len(cli.trace) :
            (cli.trace[j].cause = "response" /\ cli.trace[j].elapsed < hangHardTimeout)
                => RestartsOf(j) = {}

SlowOkJobs ==
    {j \in 1..Len(cli.trace) :
        /\ cli.trace[j].cause = "response" /\ cli.trace[j].status = 200
        /\ cli.trace[j].elapsed > hangThresholdMs
        /\ cli.trace[j].elapsed < hangHardTimeout}

\* C9: a renderBatch job that takes longer than hangThresholdMs but ends
\* before the hard timeout with status 200 is informational only: one
\* HangRecord "slow render (completed)" is logged, the job is not in errors
\* and no restart is made for it.
C9_SlowButCompleted ==
    InBatch =>
        \A j \in SlowOkJobs :
            /\ \E m \in HangCallsOf(j) :
                   cli.hangCalls[m] = [job |-> j, figure |-> FigName(j),
                                       durationMs |-> cli.trace[j].elapsed,
                                       reason |-> <<"slow render (completed)">>]
            /\ Cardinality(HangCallsOf(j)) = 1
            /\ \A m \in 1..Len(cli.errors) : cli.errors[m].name # FigName(j)
            /\ RestartsOf(j) = {}

\* a slow job completed with 200 just short of the hard timeout
C9_Witness ==
    /\ InBatch /\ cli.pc = "done"
    /\ \E j \in SlowOkJobs : cli.trace[j].elapsed >= hangHardTimeout - 100

FailedTrace == SelectSeq(cli.trace, Failed)

ExpectedErrors ==
    [m \in 1..Len(FailedTrace) |->
        [name |-> FailedTrace[m].figure, message |-> FailedTrace[m].message]]

\* C10: renderBatch submits every figure of its list once, in input order
\* and one at a time, whatever happened to the earlier ones, and returns
\* total = number of figures, errors = the failed figures in input order,
\* ok = total - errors.length.
C10_BatchCompleteness ==
    InBatch =>
        /\ cli.submitted = [m \in 1..Len(cli.submitted) |-> FigName(m)]
        /\ Len(cli.submitted) <= cli.n
        /\ Len(cli.submitted) - Len(cli.trace) = (IF cli.pc = "waiting" THEN 1 ELSE 0)
        /\ cli.errors = ExpectedErrors
        /\ cli.pc = "done" =>
              /\ Len(cli.submitted) = cli.n
              /\ cli.result.total = cli.n
              /\ cli.result.errors = ExpectedErrors
              /\ cli.result.ok = cli.n - Len(cli.result.errors)

\* a batch returned after its first job hit the hard timeout and its second
\* job succeeded
C10_Witness ==
    /\ InBatch /\ cli.pc = "done" /\ cli.n = 2
    /\ cli.trace[1].cause = "timer"
    /\ ~Failed(cli.trace[2])
    /\ cli.result.ok = 1

\* ------------------------------------------------------------------------
\* The layout analysis of POST /check (server.js 271-337), the function that
\* page.evaluate runs in the document. Lengths are in half pixels:
\* getBoundingClientRect returns fractions. In SpecCheck srv holds
\*   texts     the svg text elements of the document, in document order
\*   rects     its svg rect elements
\*   analysis  what the function returned (NoAnalysis before the call)
\* ------------------------------------------------------------------------
MaxTexts == 2    \* svg text elements in one document
MaxRects == 2    \* svg rect elements in one document

Scale == 2
Px(n) == n * Scale

\* svgW, svgH handed to the function
CanvasW == 60
CanvasH == 40

MIN_GAP      == 3
OVERFLOW_TOL == 3

\* Math.round of n / d: the nearest integer, a half goes up
RoundDiv(n, d) == (2 * n + d) \div (2 * d)
Round(v) == RoundDiv(v, Scale)

MaxOf(S) == CHOOSE v \in S : \A u \in S : u <= v
MinOf(S) == CHOOSE v \in S : \A u \in S : v <= u

TextBox(x, y, w, h, skip, said) ==
    [x |-> x, y |-> y, w |-> w, h |-> h, skip |-> skip, said |-> said]

\* the text elements a document is made of: the pair of the overlap example,
\* neighbours at 2, 2.5 and 3 px, elements at and beyond each canvas edge,
\* a box too small to count, an empty text, elements that opt out, and
\* elements that reach out of a rect
TextChoices ==
    { TextBox(Px(0), Px(0), Px(10), Px(10), FALSE, TRUE),
      TextBox(Px(4), Px(4), Px(10), Px(10), FALSE, TRUE),
      TextBox(Px(8), Px(0), Px(10), Px(10), FALSE, TRUE),
      TextBox(Px(12) + 1, Px(0), Px(10), Px(10), FALSE, TRUE),
      TextBox(Px(13), Px(0), Px(10), Px(10), FALSE, TRUE),
      TextBox(Px(0 - 5), Px(0), Px(15), Px(10), FALSE, TRUE),
      TextBox(Px(52) + 1, Px(32) + 1, Px(10), Px(10), FALSE, TRUE),
      TextBox(Px(52), Px(0), Px(10), Px(10), FALSE, TRUE),
      TextBox(Px(0 - 3), Px(0 - 8), Px(10), Px(10), FALSE, TRUE),
      TextBox(Px(2), Px(2), Px(1), Px(10), FALSE, TRUE),
      TextBox(Px(2), Px(2), Px(10), Px(10), FALSE, FALSE),
      TextBox(Px(0), Px(0), Px(10), Px(10), TRUE, TRUE),
      TextBox(Px(0 - 5), Px(4), Px(10), Px(10), TRUE, TRUE),
      TextBox(Px(45), Px(15), Px(10), Px(10), FALSE, TRUE),
      TextBox(Px(44), Px(14), Px(10), Px(30), FALSE, TRUE) }

RectBox(x, y, w, h, skip, fill) ==
    [x |-> x, y |-> y, w |-> w, h |-> h, skip |-> skip, fill |-> fill]

\* the rect elements: a container, a smaller one inside it, one that opts
\* out, one without fill, one too small to be a container
RectChoices ==
    { RectBox(Px(20), Px(10), Px(30), Px(25), FALSE, TRUE),
      RectBox(Px(40), Px(10), Px(20), Px(20), FALSE, TRUE),
      RectBox(Px(40), Px(10), Px(12), Px(20), TRUE, TRUE),
      RectBox(Px(40), Px(10), Px(13), Px(20), FALSE, FALSE),
      RectBox(Px(40), Px(10), Px(10), Px(20), FALSE, TRUE) }

SeqsUpTo(S, n) == UNION {[1..m -> S] : m \in 0..n}

\* el.textContent.trim()...: each element of the document has its own text
TextOf(el, k) == IF el.said THEN ToString(k) ELSE ""

\* querySelectorAll('svg text').map(...).filter(t => t.text && t.w > 1 && t.h > 1)
AllNodes(texts) ==
    LET mapped == [k \in 1..Len(texts) |->
                     [text |-> TextOf(texts[k], k),
                      x |-> texts[k].x, y |-> texts[k].y,
                      w |-> texts[k].w, h |-> texts[k].h,
                      r |-> texts[k].x + texts[k].w,
                      b |-> texts[k].y + texts[k].h,
                      skip |-> texts[k].skip]]
        Kept(t) == t.text # "" /\ t.w > Px(1) /\ t.h > Px(1)
    IN  SelectSeq(mapped, Kept)

\* faulty variant: the elements that opt out are not filtered
NodesAll(allNodes) == allNodes

\* allNodes.filter(t => !t.skip)
Nodes(allNodes) ==
    LET Checked(t) == ~t.skip IN SelectSeq(allNodes, Checked)

\* faulty variant: the inner loop starts at 0, every pair is met in both orders
PairsBothOrders(n) ==
    LET Differ(p) == p[1] # p[2]
    IN  SelectSeq([k \in 1..(n * n) |-> <<((k - 1) \div n) + 1, ((k - 1) % n) + 1>>],
                  Differ)

\* for (i = 0; ...) for (j = i + 1; ...): the pairs in the order of the loops
Pairs(n) ==
    LET Upper(p) == p[1] < p[2]
    IN  SelectSeq([k \in 1..(n * n) |-> <<((k - 1) \div n) + 1, ((k - 1) % n) + 1>>],
                  Upper)

Ox(a, b) == MinOf({a.r, b.r}) - MaxOf({a.x, b.x})
Oy(a, b) == MinOf({a.b, b.b}) - MaxOf({a.y, b.y})
Gap(o) == MaxOf({0, 0 - o})

IsOverlap(a, b) == Ox(a, b) > Px(2) /\ Oy(a, b) > Px(2)
IsTooClose(a, b) ==
    /\ ~IsOverlap(a, b)
    /\ Gap(Ox(a, b)) < Px(MIN_GAP) /\ Gap(Oy(a, b)) < Px(MIN_GAP)

OverlapOf(a, b) ==
    [a |-> a.text, b |-> b.text,
     overlapX |-> Round(Ox(a, b)), overlapY |-> Round(Oy(a, b)),
     overlapPx |-> RoundDiv(Ox(a, b) * Oy(a, b), Scale * Scale),
     aPos |-> <<Round(a.x), Round(a.y)>>, bPos |-> <<Round(b.x), Round(b.y)>>]

TooCloseOf(a, b) ==
    [a |-> a.text, b |-> b.text,
     gapX |-> Round(Gap(Ox(a, b))), gapY |-> Round(Gap(Oy(a, b))),
     gapPx |-> Round(MaxOf({Gap(Ox(a, b)), Gap(Oy(a, b))})),
     aPos |-> <<Round(a.x), Round(a.y)>>, bPos |-> <<Round(b.x), Round(b.y)>>]

Overlaps(nodes) ==
    LET Hit(p) == IsOverlap(nodes[p[1]], nodes[p[2]])
        hits   == SelectSeq(Pairs(Len(nodes)), Hit)
    IN  [k \in 1..Len(hits) |-> OverlapOf(nodes[hits[k][1]], nodes[hits[k][2]])]

TooClose(nodes) ==
    LET Hit(p) == IsTooClose(nodes[p[1]], nodes[p[2]])
        hits   == SelectSeq(Pairs(Len(nodes)), Hit)
    IN  [k \in 1..Len(hits) |-> TooCloseOf(nodes[hits[k][1]], nodes[hits[k][2]])]

\* faulty variant: the bottom edge of the canvas is not looked at
IsClippedNoBottom(t) ==
    t.r > Px(CanvasW) + Px(2) \/ t.x < 0 - Px(2) \/ t.y < 0 - Px(2)

\* t.r > W + 2 || t.b > H + 2 || t.x < -2 || t.y < -2
IsClipped(t) ==
    \/ t.r > Px(CanvasW) + Px(2) \/ t.b > Px(CanvasH) + Px(2)
    \/ t.x < 0 - Px(2) \/ t.y < 0 - Px(2)

ClippedOf(t) ==
    [text |-> t.text,
     edge |-> IF t.x < 0 - Px(2) THEN "left"
              ELSE IF t.r > Px(CanvasW) + Px(2) THEN "right"
              ELSE IF t.y < 0 - Px(2) THEN "top" ELSE "bottom",
     overflowPx |-> Round(MaxOf({t.r - Px(CanvasW), t.b - Px(CanvasH),
                                 0 - t.x, 0 - t.y}))]

Clipped(allNodes) ==
    LET hits == SelectSeq(allNodes, IsClipped)
    IN  [k \in 1..Len(hits) |-> ClippedOf(hits[k])]

\* querySelectorAll('svg rect').map(...).filter(Boolean)
Boxes(rects) ==
    LET Container(el) ==
            /\ ~(el.w < Px(20) \/ el.h < Px(20))
            /\ ~el.skip
            /\ el.fill
        kept == SelectSeq(rects, Container)
    IN  [k \in 1..Len(kept) |->
           [x |-> kept[k].x, y |-> kept[k].y,
            r |-> kept[k].x + kept[k].w, b |-> kept[k].y + kept[k].h,
            area |-> kept[k].w * kept[k].h]]

\* cx >= b.x && cx <= b.r && cy >= b.y && cy <= b.b, with cx = t.x + t.w / 2
CentreIn(t, box) ==
    /\ 2 * t.x + t.w >= 2 * box.x /\ 2 * t.x + t.w <= 2 * box.r
    /\ 2 * t.y + t.h >= 2 * box.y /\ 2 * t.y + t.h <= 2 * box.b

Containers(t, boxes) ==
    LET Holds(box) == CentreIn(t, box) IN SelectSeq(boxes, Holds)

\* containers.reduce((a, b) => a.area <= b.area ? a : b)
Smallest(containers) ==
    LET least == MinOf({containers[k].area : k \in 1..Len(containers)})
        first == MinOf({k \in 1..Len(containers) : containers[k].area = least})
    IN  containers[first]

Excess(t, box) ==
    [right |-> t.r - box.r, left |-> box.x - t.x,
     bottom |-> t.b - box.b, top |-> box.y - t.y]

MaxExcess(t, box) ==
    LET o == Excess(t, box) IN MaxOf({o.right, o.left, o.bottom, o.top})

Overflows(t, boxes) ==
    /\ Len(Containers(t, boxes)) > 0
    /\ MaxExcess(t, Smallest(Containers(t, boxes))) > Px(OVERFLOW_TOL)

BoxOverflowOf(t, boxes) ==
    LET box == Smallest(Containers(t, boxes))
        o   == Excess(t, box)
    IN  [text |-> t.text,
         edge |-> IF o.right > Px(OVERFLOW_TOL) THEN "right"
                  ELSE IF o.left > Px(OVERFLOW_TOL) THEN "left"
                  ELSE IF o.bottom > Px(OVERFLOW_TOL) THEN "bottom" ELSE "top",
         overflowPx |-> Round(MaxExcess(t, box)),
         textPos |-> <<Round(t.x), Round(t.y)>>]

BoxOverflows(allNodes, boxes) ==
    LET Hit(t) == Overflows(t, boxes)
        hits   == SelectSeq(allNodes, Hit)
    IN  [k \in 1..Len(hits) |-> BoxOverflowOf(hits[k], boxes)]

\* the function handed to page.evaluate
Analyse(texts, rects) ==
    LET allNodes == AllNodes(texts)
        nodes    == Nodes(allNodes)
    IN  [textCount |-> Len(allNodes), checkedCount |-> Len(nodes),
         overlaps |-> Overlaps(nodes), tooClose |-> TooClose(nodes),
         clipped |-> Clipped(allNodes),
         boxOverflows |-> BoxOverflows(allNodes, Boxes(rects))]

NoAnalysis == [textCount |-> 0 - 1]

InitCheck ==
    /\ queues = [i \in QueueIds |-> EmptyQueue]
    /\ cli = IdleClient
    /\ conns = <<>>
    /\ srvQ = EmptyQueue
    /\ \E texts \in SeqsUpTo(TextChoices, MaxTexts),
          rects \in SeqsUpTo(RectChoices, MaxRects) :
         srv = [up |-> FALSE, texts |-> texts, rects |-> rects,
                analysis |-> NoAnalysis]

\* const analysis = await this._page.evaluate(...)
Evaluate ==
    /\ srv.analysis = NoAnalysis
    /\ srv' = [srv EXCEPT !.analysis = Analyse(srv.texts, srv.rects)]
    /\ UNCHANGED <<queues, conns, srvQ, cli>>

NextCheck == Evaluate

SpecCheck == InitCheck /\ [][NextCheck]_vars

\* ------------------------------------------------------------------------
\* Claims about the layout analysis. Element k of the document is told by
\* its text, ToString(k).
\* ------------------------------------------------------------------------
Analysed == ~srv.up /\ srv.analysis # NoAnalysis

\* the elements the analysis counts: with a text and more than 1 px wide and high
Counted == {k \in 1..Len(srv.texts) :
              srv.texts[k].said /\ srv.texts[k].w > Px(1) /\ srv.texts[k].h > Px(1)}
OptedOut == {k \in Counted : srv.texts[k].skip}
Checked == Counted \ OptedOut

Right(k) == srv.texts[k].x + srv.texts[k].w
Bottom(k) == srv.texts[k].y + srv.texts[k].h

\* the findings of a list that name the pair i, j
PairFindings(list, i, j) ==
    {n \in 1..Len(list) :
        {list[n].a, list[n].b} = {ToString(i), ToString(j)}}

ElementOf(f) == CHOOSE k \in 1..Len(srv.texts) : ToString(k) = f.text

\* C22: for a text whose centre lies in a container rect the smallest such
\* rect is taken, an overflow is reported iff the text exceeds it by more than
\* 3 on some side, and the edge reported is the side of the largest excess,
\* the one whose excess is the reported overflowPx.
C22_BoxOverflowEdge ==
    Analysed =>
       LET all   == AllNodes(srv.texts)
           boxes == Boxes(srv.rects)
           found == srv.analysis.boxOverflows
       IN  /\ \A k \in 1..Len(all) :
                LET mine == {n \in 1..Len(found) : found[n].text = all[k].text}
                IN  IF Overflows(all[k], boxes)
                    THEN Cardinality(mine) = 1 ELSE mine = {}
           /\ \A n \in 1..Len(found) :
                LET t   == CHOOSE t \in {all[k] : k \in 1..Len(all)} :
                              t.text = found[n].text
                    box == Smallest(Containers(t, boxes))
                IN  /\ \A c \in {Containers(t, boxes)[m] :
                                   m \in 1..Len(Containers(t, boxes))} :
                          box.area <= c.area
                    /\ Excess(t, box)[found[n].edge] = MaxExcess(t, box)
                    /\ found[n].overflowPx = Round(MaxExcess(t, box))

\* a side of element k lies more than 2 px outside the canvas
Violations(k) ==
    [left |-> 0 - srv.texts[k].x, top |-> 0 - srv.texts[k].y,
     right |-> Right(k) - Px(CanvasW), bottom |-> Bottom(k) - Px(CanvasH)]

Sides == {"left", "right", "top", "bottom"}

C24_OptOut ==
    Analysed =>
       /\ \A k \in OptedOut :
            /\ \A n \in 1..Len(srv.analysis.overlaps) :
                 ToString(k) \notin {srv.analysis.overlaps[n].a,
                                     srv.analysis.overlaps[n].b}
            /\ \A n \in 1..Len(srv.analysis.tooClose) :
                 ToString(k) \notin {srv.analysis.tooClose[n].a,
                                     srv.analysis.tooClose[n].b}
       /\ srv.analysis.textCount = Cardinality(Counted)
       /\ srv.analysis.checkedCount = Cardinality(Checked)
       /\ srv.analysis.checkedCount <= srv.analysis.textCount
       /\ srv.analysis.textCount - srv.analysis.checkedCount = Cardinality(OptedOut)

\* an element that opts out lies on one that does not: no finding, two
\* elements counted, one checked
C24_Witness ==
    /\ Analysed
    /\ Len(srv.texts) = 2
    /\ srv.texts[1] = TextBox(Px(0), Px(0), Px(10), Px(10), TRUE, TRUE)
    /\ srv.texts[2] = TextBox(Px(4), Px(4), Px(10), Px(10), FALSE, TRUE)
    /\ srv.analysis.overlaps = <<>> /\ srv.analysis.tooClose = <<>>
    /\ srv.analysis.textCount = 2 /\ srv.analysis.checkedCount = 1

\* ------------------------------------------------------------------------
\* normalizePdfDates (server.js 20-36). A file is a sequence of tokens: the
\* keys and tags the five patterns look for, " " (whitespace), "(", ")",
\* date values, and "x" (any other bytes). In SpecPdf srv holds
\*   exists  the file at pdfPath can be read
\*   orig    its content before the first call
\*   file    its content now
\*   runs    the calls made;  wrote  the last call wrote the file
\* ------------------------------------------------------------------------
MaxChunks == 2    \* pieces a file is put together from
MaxRuns   == 2    \* calls of normalizePdfDates on one file

FIXED_PDF == <<"(", "D:20000101000000Z", ")">>
FIXED_ISO == <<"2000-01-01T00:00:00Z">>

PdfKeys == {"/CreationDate", "/ModDate"}
XmpTags == {"xmp:CreateDate", "xmp:ModifyDate", "xmp:MetadataDate"}
OpenTag(t)  == [open |-> t]
CloseTag(t) == [close |-> t]
DateValues  == {"D:2024", "D:2025"}

Word(w) == [word |-> w]
Words(ws) == [k \in 1..Len(ws) |-> Word(ws[k])]
IsTagToken(tok) == DOMAIN tok # {"word"}

\* the pieces of the files: date fields with one, no and two blanks before
\* the value, with either date, a field that holds the sentinel already, a
\* key without a value, a string that is no date field, other bytes, and
\* the XMP elements
FileChunks ==
    { Words(<<"/CreationDate", " ", "(", "D:2024", ")">>),
      Words(<<"/CreationDate", " ", "(", "D:2025", ")">>),
      Words(<<"/CreationDate", "(", "D:2024", ")">>),
      Words(<<"/CreationDate", " ", " ", "(", "D:2024", ")">>),
      Words(<<"/ModDate", " ", "(", "D:2024", ")">>),
      Words(<<"/ModDate", " ", "(", "D:2025", ")">>),
      Words(<<"/CreationDate", " ">>) \o Words(FIXED_PDF),
      Words(<<"/CreationDate", " ", "x">>),
      Words(<<"x", "(", "D:2024", ")">>),
      Words(<<"x">>),
      <<OpenTag("xmp:CreateDate"), Word("D:2024"), CloseTag("xmp:CreateDate")>>,
      <<OpenTag("xmp:CreateDate"), Word("D:2025"), CloseTag("xmp:CreateDate")>>,
      <<OpenTag("xmp:ModifyDate"), Word("D:2024"), CloseTag("xmp:ModifyDate")>>,
      <<OpenTag("xmp:MetadataDate"), Word("D:2024"), CloseTag("xmp:MetadataDate")>> }

RECURSIVE Concat(_)
Concat(chunks) ==
    IF chunks = <<>> THEN <<>> ELSE Head(chunks) \o Concat(Tail(chunks))

\* /<key>\s*\([^)]*\)/ at position i: the position of the closing ")", or 0
MatchPdf(s, key, i) ==
    IF s[i] # Word(key) THEN 0
    ELSE LET after == {j \in (i + 1)..Len(s) : s[j] # Word(" ")}
         IN  IF after = {} THEN 0
             ELSE LET j == MinOf(after)
                      closing == {k \in (j + 1)..Len(s) : s[k] = Word(")")}
                  IN  IF s[j] = Word("(") /\ closing # {}
                      THEN MinOf(closing) ELSE 0

\* /<tag>[^<]*<\/tag>/ at position i: the position of the closing tag, or 0
MatchXmp(s, tag, i) ==
    IF s[i] # OpenTag(tag) THEN 0
    ELSE LET tags == {j \in (i + 1)..Len(s) : IsTagToken(s[j])}
         IN  IF tags # {} /\ s[MinOf(tags)] = CloseTag(tag)
             THEN MinOf(tags) ELSE 0

\* faulty variant: without the g flag only the first match is replaced
RECURSIVE ReplacePdfOnce(_, _, _)
ReplacePdfOnce(s, key, i) ==
    IF i > Len(s) THEN <<>>
    ELSE IF MatchPdf(s, key, i) > 0
    THEN <<Word(key), Word(" ")>> \o Words(FIXED_PDF)
           \o SubSeq(s, MatchPdf(s, key, i) + 1, Len(s))
    ELSE <<s[i]>> \o ReplacePdfOnce(s, key, i + 1)

\* str.replace(/<key>\s*\([^)]*\)/g, `<key> ${FIXED_PDF}`), from position i
RECURSIVE ReplacePdf(_, _, _)
ReplacePdf(s, key, i) ==
    IF i > Len(s) THEN <<>>
    ELSE IF MatchPdf(s, key, i) > 0
    THEN <<Word(key), Word(" ")>> \o Words(FIXED_PDF)
           \o ReplacePdf(s, key, MatchPdf(s, key, i) + 1)
    ELSE <<s[i]>> \o ReplacePdf(s, key, i + 1)

\* str.replace(/<tag>[^<]*<\/tag>/g, `<tag>${FIXED_ISO}</tag>`), from position i
RECURSIVE ReplaceXmp(_, _, _)
ReplaceXmp(s, tag, i) ==
    IF i > Len(s) THEN <<>>
    ELSE IF MatchXmp(s, tag, i) > 0
    THEN <<OpenTag(tag)>> \o Words(FIXED_ISO) \o <<CloseTag(tag)>>
           \o ReplaceXmp(s, tag, MatchXmp(s, tag, i) + 1)
    ELSE <<s[i]>> \o ReplaceXmp(s, tag, i + 1)

\* the chain of the five replace calls
Patched(str) ==
    LET p1 == ReplacePdf(str, "/CreationDate", 1)
        p2 == ReplacePdf(p1, "/ModDate", 1)
        p3 == ReplaceXmp(p2, "xmp:CreateDate", 1)
        p4 == ReplaceXmp(p3, "xmp:ModifyDate", 1)
    IN  ReplaceXmp(p4, "xmp:MetadataDate", 1)

InitPdf ==
    /\ queues = [i \in QueueIds |-> EmptyQueue]
    /\ cli = IdleClient
    /\ conns = <<>>
    /\ srvQ = EmptyQueue
    /\ \/ \E chunks \in SeqsUpTo(FileChunks, MaxChunks) :
            srv = [up |-> FALSE, exists |-> TRUE, orig |-> Concat(chunks),
                   file |-> Concat(chunks), runs |-> 0, wrote |-> FALSE]
       \/ srv = [up |-> FALSE, exists |-> FALSE, orig |-> <<>>,
                 file |-> <<>>, runs |-> 0, wrote |-> FALSE]

\* normalizePdfDates(pdfPath): a file that cannot be read is left alone; the
\* file is written only if a replace changed the text
NormalizePdfDates ==
    /\ srv.runs < MaxRuns
    /\ srv' = IF ~srv.exists
              THEN [srv EXCEPT !.runs = @ + 1, !.wrote = FALSE]
              ELSE [srv EXCEPT !.runs = @ + 1,
                               !.wrote = (Patched(srv.file) # srv.file),
                               !.file = Patched(srv.file)]
    /\ UNCHANGED <<queues, conns, srvQ, cli>>

NextPdf == NormalizePdfDates

SpecPdf == InitPdf /\ [][NextPdf]_vars

\* ------------------------------------------------------------------------
\* Claims about normalizePdfDates
\* ------------------------------------------------------------------------
\* the date fields of s: key or tag at i, value from first to last, end at e
PdfFields(s) ==
    {[i |-> i, first |-> MinOf({j \in (i + 1)..Len(s) : s[j] # Word(" ")}) + 1,
      last |-> MatchPdf(s, key, i) - 1] :
        <<key, i>> \in {<<key, i>> \in PdfKeys \X (1..Len(s)) :
                          MatchPdf(s, key, i) > 0}}

XmpFields(s) ==
    {[i |-> i, first |-> i + 1, last |-> MatchXmp(s, tag, i) - 1] :
        <<tag, i>> \in {<<tag, i>> \in XmpTags \X (1..Len(s)) :
                          MatchXmp(s, tag, i) > 0}}

\* the positions of s that hold the value of a date field
ValuePositions(s) ==
    UNION {f.first..f.last : f \in PdfFields(s) \cup XmpFields(s)}

\* the positions of the whitespace between a key and its value
BlankPositions(s) == UNION {(f.i + 1)..(f.first - 2) : f \in PdfFields(s)}

RECURSIVE Without(_, _, _)
Without(s, P, i) ==
    IF i > Len(s) THEN <<>>
    ELSE (IF i \in P THEN <<>> ELSE <<s[i]>>) \o Without(s, P, i + 1)

\* s with its date values dropped: the other bytes of the file
OtherBytes(s) == Without(s, ValuePositions(s), 1)

\* the same file rendered at another time: every date value is another date
Retimed(s) ==
    [k \in 1..Len(s) |->
       IF k \notin ValuePositions(s) THEN s[k]
       ELSE IF s[k] = Word("D:2024") THEN Word("D:2025") ELSE Word("D:2024")]

Sentinels == {Word(FIXED_PDF[2]), Word(FIXED_ISO[1])}

Normalized == ~srv.up /\ srv.exists /\ srv.runs >= 1

\* what the claim states apart from the bytes outside the values: every
\* field holds the sentinel, a second call changes nothing, a file without
\* date fields is not written, the same file with other dates gives the same
\* result
SentinelEverywhere ==
    /\ \A k \in ValuePositions(srv.file) : srv.file[k] \in Sentinels
    /\ Cardinality(PdfFields(srv.file) \cup XmpFields(srv.file))
         = Cardinality(PdfFields(srv.orig) \cup XmpFields(srv.orig))
    /\ srv.runs >= 2 => (~srv.wrote /\ srv.file = Patched(srv.orig))
    /\ ValuePositions(srv.orig) = {} => (srv.file = srv.orig /\ ~srv.wrote)
    /\ Patched(Retimed(srv.orig)) = srv.file

\* C25 as stated: normalizePdfDates replaces the value of every date field
\* by the sentinel and leaves every other byte unchanged.
C25_OnlyValuesChange ==
    Normalized =>
       /\ SentinelEverywhere
       /\ OtherBytes(srv.file) = OtherBytes(srv.orig)

\* C25: normalizePdfDates replaces the value of every date field by the
\* sentinel and the whitespace between a PDF key and its value by one blank,
\* and leaves every other byte unchanged; applying it twice gives the same
\* file as once, a file without date fields is not modified, and files that
\* differ only in the dates become identical.
C25_DatesNormalized ==
    Normalized =>
       /\ SentinelEverywhere
       /\ Without(srv.file, ValuePositions(srv.file) \cup BlankPositions(srv.file), 1)
            = Without(srv.orig, ValuePositions(srv.orig) \cup BlankPositions(srv.orig), 1)
       /\ \A f \in PdfFields(srv.file) : f.first = f.i + 3

\* a file with two date fields of different dates, normalized twice: the
\* first call rewrote it, the second left it alone
C25_Witness ==
    /\ Normalized /\ srv.runs = 2 /\ ~srv.wrote
    /\ srv.orig = Words(<<"/CreationDate", " ", "(", "D:2024", ")",
                          "/ModDate", " ", "(", "D:2025", ")">>)
    /\ srv.file # srv.orig


\* ------------------------------------------------------------------------
\* mcp_server.js: the MCP stdio server and its FigurerClient. Here cli is the
\* MCP process: the lines it has read (one handler each), its stdout and
\* whether it has exited; srv.listening tells whether the render server
\* accepts connections.
\* ------------------------------------------------------------------------
MaxLines == 2     \* lines read from stdin

NoId == "undefined"                \* msg.id of a message without an id
PORT == "9229"

Methods == {"initialize", "notifications/initialized", "tools/list",
            "tools/call", "ping", "no_such_method"}
ToolNames == {"render_figure", "check_figure", "server_status"}
CallNames == ToolNames \cup {"no_such_tool"}

\* the lines stdin can carry as line number n: an empty line, a line that
\* is not JSON, a request of every method and for every tool with the id n,
\* and messages without an id: the notification, a ping, an unknown method
\* and calls of a known and an unknown tool
Messages(n) ==
    {[kind |-> "msg", method |-> m, id |-> ToString(n), tool |-> ""] :
        m \in Methods \ {"tools/call"}}
    \cup {[kind |-> "msg", method |-> "tools/call", id |-> ToString(n), tool |-> t] :
        t \in CallNames}
    \cup {[kind |-> "msg", method |-> m, id |-> NoId, tool |-> ""] :
        m \in {"notifications/initialized", "ping", "no_such_method"}}
    \cup {[kind |-> "msg", method |-> "tools/call", id |-> NoId, tool |-> t] :
        t \in {"server_status", "no_such_tool"}}

McpLines(n) ==
    {[kind |-> k, method |-> "", id |-> NoId, tool |-> ""] :
        k \in {"empty", "badjson"}}
    \cup Messages(n)

\* the texts the tool handlers return, as the pieces they are made of
NotRunningText(tool) ==
    IF tool = "server_status"
    THEN <<"Server ", "not running", " on port ", PORT, ".\nStart with: ./server.sh start --src-dir <figures-dir>">>
    ELSE <<"Server ", "not running", ". Start it with:\n  ./server.sh start --src-dir <figures-dir>">>

DoneText(tool, outcome) ==
    CASE tool = "render_figure" /\ outcome = "ok" -> <<"Rendered ", "name", " → ", "output_path">>
      [] tool = "render_figure" -> <<"Render failed: ", outcome>>
      [] tool = "check_figure" /\ outcome = "ok" -> <<"formatReport">>
      [] tool = "check_figure" -> <<"Check failed: ", outcome>>
      [] tool = "server_status" /\ outcome = "ok" -> <<"Server ready on port ", PORT, ". Figures loaded: ", "figs">>
      [] OTHER -> <<"Server error: ", outcome>>

\* the request a tool sends once the server was found available
ToolRequest(tool) ==
    CASE tool = "render_figure" -> <<"POST", "/render">>
      [] tool = "check_figure" -> <<"POST", "/check">>
      [] OTHER -> <<"GET", "/">>

ResultLine(h, id, text) ==
    [by |-> h, id |-> id, kind |-> "result", code |-> 0, text |-> text]

ErrorLine(h, id, code, text) ==
    [by |-> h, id |-> id, kind |-> "error", code |-> code, text |-> text]

\* send(obj): one line on stdout; JSON.stringify leaves out an undefined id
Send(out, line) == Append(out, line)

NewHandler(line, pc, http) ==
    [line |-> line, pc |-> pc, http |-> http, avail |-> ""]

InitMcp ==
    /\ queues = [i \in QueueIds |-> EmptyQueue]
    /\ conns = <<>>
    /\ srvQ = EmptyQueue
    /\ \E l \in BOOLEAN : srv = [up |-> FALSE, listening |-> l]
    /\ cli = [up |-> FALSE, lines |-> <<>>, stdout |-> <<>>, exited |-> FALSE]

\* rl.on('line'): the handler up to its first await
Line(line) ==
    LET h == Len(cli.lines) + 1
        id == line.id
        m == line.method
    IN  /\ ~cli.exited
        /\ h <= MaxLines
        /\ line \in McpLines(h)
        /\ cli' =
             CASE line.kind # "msg" ->
                    [cli EXCEPT !.lines = Append(@, NewHandler(line, "done", <<>>))]
               [] m \in {"initialize", "tools/list", "ping"} ->
                    [cli EXCEPT !.lines = Append(@, NewHandler(line, "done", <<>>)),
                                !.stdout = Send(@, ResultLine(h, id, <<m>>))]
               [] m = "notifications/initialized" ->
                    [cli EXCEPT !.lines = Append(@, NewHandler(line, "done", <<>>))]
               [] m = "tools/call" /\ line.tool \in ToolNames ->
                    [cli EXCEPT !.lines = Append(@,
                        NewHandler(line, "probe", << <<"GET", "/">> >>))]
               [] m = "tools/call" ->
                    [cli EXCEPT !.lines = Append(@, NewHandler(line, "thrown", <<>>))]
               [] OTHER ->
                    IF id # NoId
                    THEN [cli EXCEPT !.lines = Append(@, NewHandler(line, "done", <<>>)),
                                     !.stdout = Send(@, ErrorLine(h, id, -32601,
                                                      <<"Method not found: ", m>>))]
                    ELSE [cli EXCEPT !.lines = Append(@, NewHandler(line, "done", <<>>))]
        /\ UNCHANGED <<queues, srv, conns, srvQ>>

\* callTool's rejection reaches the catch of the handler
Thrown(h) ==
    /\ ~cli.exited
    /\ h \in 1..Len(cli.lines)
    /\ cli.lines[h].pc = "thrown"
    /\ cli' = [cli EXCEPT
                 !.lines[h].pc = "done",
                 !.stdout = IF cli.lines[h].line.id # NoId
                            THEN Send(@, ErrorLine(h, cli.lines[h].line.id, -32603,
                                           <<"Unknown tool: ", cli.lines[h].line.tool>>))
                            ELSE @]
    /\ UNCHANGED <<queues, srv, conns, srvQ>>

\* the answers GET / can end with: only a listening server answers
ProbeOutcomes == IF srv.listening THEN {"ready", "notReady", "timeout"}
                 ELSE {"ECONNREFUSED"}

\* faulty variant: the tool goes on to its request whatever the probe said
ProbeDoneIgnored(h, outcome) ==
    /\ ~cli.exited
    /\ h \in 1..Len(cli.lines)
    /\ cli.lines[h].pc = "probe"
    /\ outcome \in ProbeOutcomes
    /\ cli' = [cli EXCEPT !.lines[h].avail = outcome,
                          !.lines[h].pc = "request",
                          !.lines[h].http = Append(@, ToolRequest(cli.lines[h].line.tool))]
    /\ UNCHANGED <<queues, srv, conns, srvQ>>

\* isServerAvailable() settles: the tool returns its 'not running' text, or
\* sends its request
ProbeDone(h, outcome) ==
    /\ ~cli.exited
    /\ h \in 1..Len(cli.lines)
    /\ cli.lines[h].pc = "probe"
    /\ outcome \in ProbeOutcomes
    /\ cli' = IF outcome = "ready"
              THEN [cli EXCEPT !.lines[h].avail = outcome,
                               !.lines[h].pc = "request",
                               !.lines[h].http = Append(@, ToolRequest(cli.lines[h].line.tool))]
              ELSE [cli EXCEPT !.lines[h].avail = outcome,
                               !.lines[h].pc = "done",
                               !.stdout = Send(@, ResultLine(h, cli.lines[h].line.id,
                                              NotRunningText(cli.lines[h].line.tool)))]
    /\ UNCHANGED <<queues, srv, conns, srvQ>>

\* the answers the tool's request can end with
RequestOutcomes == IF srv.listening THEN {"ok", "500", "socket hang up"}
                   ELSE {"ECONNREFUSED", "socket hang up"}

\* client.render / checkFigure / getStatus settles and the text is sent
RequestDone(h, outcome) ==
    /\ ~cli.exited
    /\ h \in 1..Len(cli.lines)
    /\ cli.lines[h].pc = "request"
    /\ outcome \in RequestOutcomes
    /\ cli' = [cli EXCEPT !.lines[h].pc = "done",
                          !.stdout = Send(@, ResultLine(h, cli.lines[h].line.id,
                                         DoneText(cli.lines[h].line.tool, outcome)))]
    /\ UNCHANGED <<queues, srv, conns, srvQ>>

\* the render server is started or stopped
ServerFlip ==
    /\ ~cli.exited
    /\ srv' = [srv EXCEPT !.listening = ~@]
    /\ UNCHANGED <<queues, conns, srvQ, cli>>

\* rl.on('close'): process.exit(0)
StdinClose ==
    /\ ~cli.exited
    /\ cli' = [cli EXCEPT !.exited = TRUE]
    /\ UNCHANGED <<queues, srv, conns, srvQ>>

NextMcp ==
    \/ \E n \in 1..MaxLines : \E line \in McpLines(n) : Line(line)
    \/ \E h \in 1..MaxLines : Thrown(h)
    \/ \E h \in 1..MaxLines :
         \E outcome \in {"ready", "notReady", "timeout", "ECONNREFUSED"} :
            ProbeDone(h, outcome)
    \/ \E h \in 1..MaxLines :
         \E outcome \in {"ok", "500", "socket hang up", "ECONNREFUSED"} :
            RequestDone(h, outcome)
    \/ ServerFlip
    \/ StdinClose

SpecMcp == InitMcp /\ [][NextMcp]_vars

\* ------------------------------------------------------------------------
\* Claims about the MCP server
\* ------------------------------------------------------------------------
Handlers == IF "lines" \in DOMAIN cli THEN 1..Len(cli.lines) ELSE {}

\* the lines handler h has written to stdout
LinesBy(h) == {i \in 1..Len(cli.stdout) : cli.stdout[i].by = h}

ToolCall(h) ==
    /\ cli.lines[h].line.method = "tools/call"
    /\ cli.lines[h].line.tool \in ToolNames

Unreachable(h) == cli.lines[h].avail \notin {"", "ready"}

Says(text, piece) == \E i \in 1..Len(text) : text[i] = piece

\* C27: a tool call that finds the render server unreachable returns a text
\* result saying 'not running', not a protocol error; it has sent nothing to
\* the server but its one availability probe, so no render or check request
\* and no retry.
C27_NotRunning ==
    \A h \in Handlers :
        ToolCall(h) /\ Unreachable(h) =>
            /\ cli.lines[h].pc = "done"
            /\ cli.lines[h].http = << <<"GET", "/">> >>
            /\ Cardinality(LinesBy(h)) = 1
            /\ \A i \in LinesBy(h) :
                 /\ cli.stdout[i].kind = "result"
                 /\ Says(cli.stdout[i].text, "not running")

\* two different tools were called while nothing was listening, both calls
\* outstanding together, and the second was answered first
C27_Witness ==
    /\ ~srv.listening
    /\ Len(cli.lines) = 2
    /\ \A h \in Handlers :
         /\ ToolCall(h) /\ cli.lines[h].avail = "ECONNREFUSED"
         /\ cli.lines[h].pc = "done"
    /\ cli.lines[1].line.tool # cli.lines[2].line.tool
    /\ cli.stdout[1].by = 2

HasId(h) == cli.lines[h].line.kind = "msg" /\ cli.lines[h].line.id # NoId

\* C28: a request with an id gets at most one response line, exactly one
\* once its handler is through, and that line bears the id of the request;
\* a message without an id, an empty line and a line that is not JSON get
\* no response line.
C28_OneResponsePerId ==
    \A h \in Handlers :
        IF HasId(h)
        THEN /\ Cardinality(LinesBy(h)) <= 1
             /\ cli.lines[h].pc = "done" => Cardinality(LinesBy(h)) = 1
             /\ \A i \in LinesBy(h) : cli.stdout[i].id = cli.lines[h].line.id
        ELSE LinesBy(h) = {}


\* ------------------------------------------------------------------------
\* checker.js formatReport(result, figure, opts). srv.result is the object
\* the caller passes and still holds after the call, srv.report the lines of
\* the string returned. A finding is told by its text and carries the
\* magnitude its section is sorted by.
\* ------------------------------------------------------------------------
MaxFindings == 3      \* findings of one result, over its four lists

Magnitudes == {1, 2, 3}

Sections == <<"overlaps", "tooClose", "clipped", "boxOverflows">>

\* the findings the list of a section can hold at position k
Finding(section, k, m) ==
    CASE section = "overlaps" -> [a |-> ToString(k), overlapPx |-> m]
      [] section = "tooClose" -> [a |-> ToString(k), gapPx |-> m]
      [] OTHER -> [text |-> ToString(k), overflowPx |-> m]

ListsOf(section, n) ==
    {[k \in 1..n |-> Finding(section, k, ms[k])] : ms \in [1..n -> Magnitudes]}

Results ==
    {[overlaps |-> o, tooClose |-> t, clipped |-> c, boxOverflows |-> b] :
        <<o, t, c, b>> \in
          UNION {ListsOf("overlaps", n[1]) \X ListsOf("tooClose", n[2])
                 \X ListsOf("clipped", n[3]) \X ListsOf("boxOverflows", n[4]) :
                   n \in {n \in [1..4 -> 0..MaxFindings] :
                            n[1] + n[2] + n[3] + n[4] <= MaxFindings}}}

\* the comparators handed to Array.prototype.sort
OverlapCmp(a, b) == b.overlapPx - a.overlapPx

\* faulty variant: the widest gap first
GapCmpDescending(a, b) == b.gapPx - a.gapPx

GapCmp(a, b) == a.gapPx - b.gapPx

OverflowCmp(a, b) == b.overflowPx - a.overflowPx

\* the comparator of a section
Compare(section, a, b) ==
    CASE section = "overlaps" -> OverlapCmp(a, b)
      [] section = "tooClose" -> GapCmp(a, b)
      [] OTHER -> OverflowCmp(a, b)

\* [...list].sort(cmp): a new array, ordered by the comparator of the
\* section, equal elements in the order they had (the sort is stable)
Sorted(section, list) ==
    LET Rank(i) == Cardinality({j \in 1..Len(list) :
                       \/ Compare(section, list[j], list[i]) < 0
                       \/ Compare(section, list[j], list[i]) = 0 /\ j < i}) + 1
    IN  [r \in 1..Len(list) |-> list[CHOOSE i \in 1..Len(list) : Rank(i) = r]]

HeaderLine(section, list) ==
    [kind |-> "header", section |-> section, count |-> Len(list)]

ItemLines(section, list) ==
    [k \in 1..Len(list) |-> [kind |-> "item", section |-> section, item |-> list[k]]]

\* the lines of a section: none for an empty list
SectionLines(section, list, sorted) ==
    IF Len(list) > 0 THEN <<HeaderLine(section, list)>> \o ItemLines(section, sorted)
    ELSE <<>>

FormatReportLines(result) ==
    LET allClear == /\ Len(result.overlaps) = 0 /\ Len(result.tooClose) = 0
                    /\ Len(result.clipped) = 0 /\ Len(result.boxOverflows) = 0
    IN  <<[kind |-> "title"], [kind |-> "inspected"]>>
        \o (IF allClear THEN <<[kind |-> "ok"]>> ELSE <<>>)
        \o SectionLines("overlaps", result.overlaps, Sorted("overlaps", result.overlaps))
        \o SectionLines("tooClose", result.tooClose, Sorted("tooClose", result.tooClose))
        \o SectionLines("clipped", result.clipped, result.clipped)
        \o SectionLines("boxOverflows", result.boxOverflows,
                        Sorted("boxOverflows", result.boxOverflows))

NoReport == <<>>

InitReport ==
    /\ queues = [i \in QueueIds |-> EmptyQueue]
    /\ cli = IdleClient
    /\ conns = <<>>
    /\ srvQ = EmptyQueue
    /\ \E result \in Results :
         srv = [up |-> FALSE, result |-> result, report |-> NoReport]

\* formatReport(result, figure, opts): the arrays of result are spread into
\* copies before they are sorted
FormatReport ==
    /\ srv.report = NoReport
    /\ srv' = [srv EXCEPT !.report = FormatReportLines(srv.result)]
    /\ UNCHANGED <<queues, conns, srvQ, cli>>

NextReport == FormatReport

SpecReport == InitReport /\ [][NextReport]_vars

\* ------------------------------------------------------------------------
\* Claims about formatReport
\* ------------------------------------------------------------------------
Reported == ~srv.up /\ "report" \in DOMAIN srv /\ srv.report # NoReport

\* the lines of the report that list the findings of a section, in order
Listed(section) ==
    SelectSeq(srv.report, LAMBDA l : l.kind = "item" /\ l.section = section)

Headers(section) ==
    SelectSeq(srv.report, LAMBDA l : l.kind = "header" /\ l.section = section)

\* the report lists each finding of the list exactly once and its header,
\* there for a list that is not empty, shows the length of the list
SameFindings(section, list) ==
    /\ Len(Listed(section)) = Len(list)
    /\ \A k \in 1..Len(list) :
         Cardinality({i \in 1..Len(Listed(section)) :
                        Listed(section)[i].item = list[k]}) = 1
    /\ IF Len(list) = 0 THEN Headers(section) = <<>>
       ELSE Headers(section) = <<HeaderLine(section, list)>>

ReportOrdered ==
    Reported =>
        /\ SameFindings("overlaps", srv.result.overlaps)
        /\ SameFindings("tooClose", srv.result.tooClose)
        /\ SameFindings("boxOverflows", srv.result.boxOverflows)
        /\ \A i, j \in 1..Len(Listed("overlaps")) : i < j =>
             Listed("overlaps")[i].item.overlapPx >= Listed("overlaps")[j].item.overlapPx
        /\ \A i, j \in 1..Len(Listed("tooClose")) : i < j =>
             Listed("tooClose")[i].item.gapPx <= Listed("tooClose")[j].item.gapPx
        /\ \A i, j \in 1..Len(Listed("boxOverflows")) : i < j =>
             Listed("boxOverflows")[i].item.overflowPx
                >= Listed("boxOverflows")[j].item.overflowPx

\* C29: formatReport lists Overlaps by overlapPx descending, BoxOverflows by
\* overflowPx descending and TooClose by gapPx ascending; every finding of
\* the input is listed once and each section header shows the length of the
\* input list; the arrays of the result passed in are left as they were.
C29_ReportOrder ==
    /\ [](ReportOrdered)
    /\ [][srv'.result = srv.result]_vars

\* a report of three gaps given widest first, which it lists tightest first
C29_Witness ==
    /\ Reported
    /\ Len(srv.result.tooClose) = 3
    /\ \A k \in 1..2 : srv.result.tooClose[k].gapPx > srv.result.tooClose[k + 1].gapPx
    /\ \A k \in 1..3 : Listed("tooClose")[k].item = srv.result.tooClose[4 - k]


\* ------------------------------------------------------------------------
\* Figure discovery: FigurerServer._loadFigureModules (server.js 77-112) and
\* the CLI's discoverFigures (bin/d3figurer.js 116-130). srv.tree is what
\* lies under srcDir: a set of entries, each with its path from srcDir (a
\* sequence of entry names) and its kind: "file", "dir" (a directory
\* without figure.js), "figure" (a directory with a figure.js that loads)
\* or "broken" (a directory with a figure.js whose require throws).
\* ------------------------------------------------------------------------
MaxEntries == 3       \* entries under srcDir

EntryNames == <<"a", "b", "shared">>      \* in the order readdirSync gives
EntryKinds == {"file", "dir", "figure", "broken"}
DirKinds   == {"dir", "figure", "broken"}

KindAt(tree, path) ==
    IF \E e \in tree : e.path = path
    THEN (CHOOSE e \in tree : e.path = path).kind
    ELSE "none"

\* const name = prefix ? `${prefix}/${entry}` : entry
NameOf(prefix, entry) ==
    IF prefix = <<>> THEN <<entry>> ELSE prefix \o <<"/", entry>>

RECURSIVE Walk(_, _, _)
\* walk(dir, prefix): the keys it adds to the cache
Walk(tree, dir, prefix) ==
    UNION {LET entry == EntryNames[i]
               entryPath == Append(dir, entry)
               kind == KindAt(tree, entryPath)
               name == NameOf(prefix, entry)
           IN  CASE kind = "none" -> {}
                 [] entry = "shared" -> {}
                 [] kind = "file" -> {}
                 [] kind = "figure" -> {name}
                 [] kind = "broken" -> {}
                 [] OTHER -> Walk(tree, entryPath, name)
           : i \in 1..Len(EntryNames)}

RECURSIVE DiscoverFrom(_, _, _, _)
\* discoverFigures(dir, prefix), from the i-th entry of dir on
DiscoverFrom(tree, dir, prefix, i) ==
    IF i > Len(EntryNames) THEN <<>>
    ELSE LET entry == EntryNames[i]
             full == Append(dir, entry)
             kind == KindAt(tree, full)
             name == NameOf(prefix, entry)
             rest == DiscoverFrom(tree, dir, prefix, i + 1)
         IN  CASE kind = "none" -> rest
               [] entry = "shared" -> rest
               [] kind = "file" -> rest
               [] kind \in {"figure", "broken"} -> <<name>> \o rest
               [] OTHER -> DiscoverFrom(tree, full, name, 1) \o rest

DiscoverFigures(tree) == DiscoverFrom(tree, <<>>, <<>>, 1)

InitDiscover ==
    /\ queues = [i \in QueueIds |-> EmptyQueue]
    /\ cli = IdleClient
    /\ conns = <<>>
    /\ srvQ = EmptyQueue
    /\ \E given \in BOOLEAN :
         srv = [up |-> FALSE, srcDir |-> given, tree |-> {},
                loaded |-> FALSE, cache |-> {}, listed |-> FALSE, names |-> <<>>]

\* the user puts a file or a directory under srcDir
AddEntry(parent, entry, kind) ==
    /\ ~srv.loaded /\ ~srv.listed
    /\ srv.srcDir
    /\ Cardinality(srv.tree) < MaxEntries
    /\ parent = <<>> \/ KindAt(srv.tree, parent) \in DirKinds
    /\ KindAt(srv.tree, Append(parent, entry)) = "none"
    /\ srv' = [srv EXCEPT !.tree = @ \cup {[path |-> Append(parent, entry), kind |-> kind]}]
    /\ UNCHANGED <<queues, conns, srvQ, cli>>

\* this._figureCache = this._loadFigureModules()
ServerDiscover ==
    /\ ~srv.loaded
    /\ srv' = [srv EXCEPT !.loaded = TRUE,
                          !.cache = IF ~srv.srcDir THEN {}
                                    ELSE Walk(srv.tree, <<>>, <<>>)]
    /\ UNCHANGED <<queues, conns, srvQ, cli>>

\* runBatch: discoverFigures(srcDir), reached only with a srcDir
CliDiscover ==
    /\ ~srv.listed
    /\ srv.srcDir
    /\ srv' = [srv EXCEPT !.listed = TRUE, !.names = DiscoverFigures(srv.tree)]
    /\ UNCHANGED <<queues, conns, srvQ, cli>>

NextDiscover ==
    \/ \E parent \in {<<>>} \cup {e.path : e \in srv.tree} :
         \E i \in 1..Len(EntryNames), kind \in EntryKinds :
            AddEntry(parent, EntryNames[i], kind)
    \/ ServerDiscover
    \/ CliDiscover

SpecDiscover == InitDiscover /\ [][NextDiscover]_vars

\* ------------------------------------------------------------------------
\* Claims about figure discovery
\* ------------------------------------------------------------------------
RECURSIVE RelPath(_)
\* the slash-separated path of an entry relative to srcDir
RelPath(path) ==
    IF Len(path) = 1 THEN path
    ELSE RelPath(SubSeq(path, 1, Len(path) - 1)) \o <<"/", path[Len(path)]>>

\* the directories under srcDir that hold a figure.js and have no component
\* named 'shared'
FigureDirs ==
    {e \in srv.tree :
        /\ e.kind \in {"figure", "broken"}
        /\ \A k \in 1..Len(e.path) : e.path[k] # "shared"}

\* C30: _loadFigureModules and discoverFigures list exactly the directories
\* under srcDir that contain a figure.js and have no path component named
\* 'shared', each under its slash-separated path relative to srcDir (so a
\* directory without figure.js is never listed itself), and with srcDir null
\* the cache is empty.
C30_Discovery ==
    /\ ~srv.up /\ "loaded" \in DOMAIN srv /\ srv.loaded =>
         srv.cache = IF srv.srcDir THEN {RelPath(e.path) : e \in FigureDirs} ELSE {}
    /\ ~srv.up /\ "listed" \in DOMAIN srv /\ srv.listed =>
         {srv.names[i] : i \in 1..Len(srv.names)} = {RelPath(e.path) : e \in FigureDirs}

\* ------------------------------------------------------------------------
\* SpecAbandon: the server and a client that gives a request up on its hard
\* timeout (client.js 68-79). Promise.race rejects the caller; the request
\* is not destroyed and nothing is sent to the server. conns[c].abandoned
\* tells whether the client has given request c up, and whether the handler
\* had written its file by then.
\* ------------------------------------------------------------------------
AbandonInputs ==
    [kind : {"render"}, figure : {"a"}, format : {"pdf", "png"}, shot : {FALSE}]
    \cup [kind : {"check"}, figure : {"a"}, format : {"none"}, shot : {TRUE}]

\* faulty variant: the timeout ends the handler of the request
ClientTimeoutCancels(c) ==
    /\ Running
    /\ c \in 1..Len(conns)
    /\ conns[c].open /\ conns[c].status = 0
    /\ conns[c].abandoned = "no"
    /\ conns' = [conns EXCEPT ![c].abandoned = IF conns[c].wrote THEN "written"
                                                ELSE "unwritten",
                              ![c].pc = "done", ![c].open = FALSE]
    /\ UNCHANGED <<queues, srv, srvQ, cli>>

\* the timer of _requestTimed fires on a request that has no answer yet: the
\* race rejects with 'render timed out', the request stays as it is
ClientTimeout(c) ==
    /\ Running
    /\ c \in 1..Len(conns)
    /\ conns[c].open /\ conns[c].status = 0
    /\ conns[c].abandoned = "no"
    /\ conns' = [conns EXCEPT ![c].abandoned = IF conns[c].wrote THEN "written"
                                                ELSE "unwritten"]
    /\ UNCHANGED <<queues, srv, srvQ, cli>>

NextAbandon ==
    \/ \E in \in AbandonInputs : PostRequest(in)
    \/ \E k \in 1..MaxConns, figureOk \in BOOLEAN : HandlerStart(k, figureOk)
    \/ \E c \in 1..MaxConns, ok, fsOk \in BOOLEAN : PageOpDone(c, ok, fsOk)
    \/ \E c \in 1..MaxConns : ClientTimeout(c)

SpecAbandon == InitServer /\ [][NextAbandon]_vars

\* ------------------------------------------------------------------------
\* Claims about a request the client has given up
\* ------------------------------------------------------------------------
Abandoned == {c \in 1..Len(conns) : conns[c].abandoned # "no"}

\* the step in which the client gives request c up
AbandonStep(c) ==
    /\ c \in 1..Len(conns) /\ conns[c].abandoned = "no"
    /\ conns'[c].abandoned # "no"

\* with request c given up, the handler and the queue are as they were
Untouched(c) ==
    /\ conns'[c].pc = conns[c].pc /\ conns'[c].open = conns[c].open
    /\ srvQ' = srvQ /\ srv' = srv

\* C31: the client's hard timeout cancels nothing at the server: the step
\* leaves the handler and the job queue as they are, the handler goes on
\* with its page operations, and a request queued behind it starts only
\* once it has settled. (That it can still write its file afterwards is the
\* state described by C31_Witness.)
C31_NoCancellation ==
    /\ [](srv.up =>
            /\ \A c \in Abandoned :
                 InPageOp(c) => ENABLED PageOpDone(c, TRUE, TRUE)
            /\ \A c \in Abandoned, d \in 1..Len(conns) :
                 c < d /\ conns[d].pc # "queued" => conns[c].pc = "done")
    /\ [][\A c \in 1..MaxConns : AbandonStep(c) => Untouched(c)]_vars

\* a render given up before it had written anything has since written its
\* file and answered 200, and the request sent after the timeout has started
C31_Witness ==
    /\ srv.up /\ Len(conns) = 2
    /\ conns[1].kind = "render" /\ conns[1].abandoned = "unwritten"
    /\ conns[1].wrote /\ conns[1].status = 200
    /\ conns[2].pc \in PageOps

\* ------------------------------------------------------------------------
\* Claims about a restart and the idle timer. server.sh restart
\* (d3figurer-server.js 282-296) sends DELETE / to the running server and
\* starts a new process, whose constructor takes _lastActivity.
\* ------------------------------------------------------------------------
ShutdownsBy(by) == {i \in 1..Len(srv.shut) : srv.shut[i].by = by}

\* the timer never stops a server earlier than an idle window after its
\* construction
NotBeforeWindow ==
    IdleStopStep => srv'.now >= srv.constructedAt + IdleWindow

\* the restart's DELETE / and the idle timer's stop() have met: the
\* session is released by one of them only
OneTeardown ==
    srv.up /\ ShutdownsBy("delete") # {} /\ ShutdownsBy("idle") # {} =>
        /\ srv.proc # "crashed"
        /\ Cardinality(Closers) <= 1
        /\ Closers # {} => SessionOpen

\* C32: a server (re)started at t is not shut down for idleness before t
\* plus the idle window, also when no job has run since, and an idle
\* shutdown that races with the restart's shutdown request does not tear
\* the session down twice.
C32_RestartIsActivity ==
    /\ [](OneTeardown)
    /\ [][NotBeforeWindow]_vars

\* ------------------------------------------------------------------------
\* SpecHangLog: calls of FigurerClient._logHang (client.js 82-90) on one log
\* file, each with its own figure, duration and reason, and each finding
\* the file writable or not. cli.i counts the calls.
\* ------------------------------------------------------------------------
MaxLogCalls == 3      \* calls of _logHang

OldRecord == [job |-> 0, figure |-> <<"old">>, durationMs |-> 6200,
              reason |-> <<"slow render (completed)">>]

\* the log file before the first call: absent, created empty by someone
\* else, or left by an earlier run
LogFiles ==
    {[exists |-> FALSE, text |-> <<>>],
     [exists |-> TRUE, text |-> <<>>],
     [exists |-> TRUE, text |-> <<Header>>],
     [exists |-> TRUE, text |-> <<Header, OldRecord>>]}

LogReasons == {<<"slow render (completed)">>, <<"render", "timed out">>}

InitHangLog ==
    /\ queues = [i \in QueueIds |-> EmptyQueue]
    /\ srv = IdleServer
    /\ conns = <<>>
    /\ srvQ = EmptyQueue
    /\ \E f \in LogFiles :
         cli = [up |-> FALSE, i |-> 1, hangCalls |-> <<>>,
                file |-> [exists |-> f.exists, writable |-> TRUE, text |-> f.text]]

\* client._logHang(figure, durationMs, reason); writable: appendFileSync
\* does not throw
LogHangCall(figure, durationMs, reason, writable) ==
    /\ "hangCalls" \in DOMAIN cli /\ ~cli.up
    /\ cli.i <= MaxLogCalls
    /\ cli' = [LogHang([cli EXCEPT !.file.writable = writable],
                       figure, durationMs, reason)
                 EXCEPT !.i = @ + 1]
    /\ UNCHANGED <<queues, srv, conns, srvQ>>

NextHangLog ==
    \E j \in 1..MaxBatch, d \in {hangThresholdMs + 1, hangHardTimeout},
       reason \in LogReasons, writable \in BOOLEAN :
        LogHangCall(FigName(j), d, reason, writable)

SpecHangLog == InitHangLog /\ [][NextHangLog]_vars

\* ------------------------------------------------------------------------
\* Claims about the hang log
\* ------------------------------------------------------------------------
HeadersIn(text) == {m \in 1..Len(text) : text[m] = Header}

\* what a call of _logHang does to the file: nothing (the write failed), or
\* it appends the entry of this call, after the header if and only if the
\* file was absent
AppendStep ==
    LET old == cli.file.text
        new == cli'.file.text
        rec == cli'.hangCalls[Len(cli'.hangCalls)]
    IN  /\ Len(cli'.hangCalls) = Len(cli.hangCalls) + 1
        /\ SubSeq(cli'.hangCalls, 1, Len(cli.hangCalls)) = cli.hangCalls
        /\ \/ new = old /\ ~cli'.file.writable
           \/ new = old \o (IF cli.file.exists THEN <<>> ELSE <<Header>>) \o <<rec>>

\* C33: the hang log is append-only: a call of _logHang leaves what is in
\* the file as it is and appends its one entry at the end (so entries are in
\* call order), writes the header only if it finds the file absent, so that
\* the header is never in the file twice, and a write that fails changes
\* nothing and throws nothing.
C33_AppendOnly ==
    /\ []("hangCalls" \in DOMAIN cli /\ ~cli.up =>
             /\ Cardinality(HeadersIn(cli.file.text)) <= 1
             /\ HeadersIn(cli.file.text) \subseteq {1})
    /\ [][AppendStep]_vars

\* three calls on a file that was absent: the first write failed, the other
\* two went through, and the file is the header and their entries in order
C33_Witness ==
    /\ "hangCalls" \in DOMAIN cli /\ ~cli.up
    /\ Len(cli.hangCalls) = 3
    /\ cli.file.text = <<Header, cli.hangCalls[2], cli.hangCalls[3]>>
    /\ cli.hangCalls[2] # cli.hangCalls[3]

\* ------------------------------------------------------------------------
\* Claims about the hang records of a batch
\* ------------------------------------------------------------------------
\* C34: in renderBatch a job produces at most one HangRecord and at most
\* one restart attempt, whatever its elapsed time, the status of its answer
\* and its error message, and a job that fails below the soft threshold
\* produces no HangRecord.
C34_OneRecordPerJob ==
    InBatch =>
        \A j \in 1..Len(cli.trace) :
            /\ Cardinality(HangCallsOf(j)) <= 1
            /\ Cardinality(RestartsOf(j)) <= 1
            /\ (Failed(cli.trace[j]) /\ cli.trace[j].elapsed < hangThresholdMs)
                   => HangCallsOf(j) = {}

\* ------------------------------------------------------------------------
\* Claims about the keys of the figure cache
\* ------------------------------------------------------------------------
CacheKeys(cache) == {f \in ModuleDirs : cache[f] # NoModule}

\* C35: the figure ids are fixed once start() has loaded the modules: no job
\* adds or removes a key of the figure cache, a failing reload leaves the
\* old value, and a figure that is not a key (its directory made after the
\* start) is answered with 404, with or without reload.
C35_KeysFixed ==
    [][/\ CacheKeys(srv'.figureCache) = CacheKeys(srv.figureCache)
       /\ JobStep =>
            LET j == srv'.log[Len(srv'.log)]
            IN  /\ j.figure \notin CacheKeys(srv.figureCache) => j.status = 404
                /\ j.status # 200 => srv'.figureCache = srv.figureCache]_vars

\* ------------------------------------------------------------------------
\* SpecSurface: jobs of two figures with documents of different size, a PNG
\* render and a check with a screenshot (which raise the scale factor to 2)
\* next to a PDF render and checks (which print and analyse the page).
\* ------------------------------------------------------------------------
SurfaceInputs ==
    [kind : {"render"}, figure : {"a"}, format : {"png"}, shot : {FALSE}]
    \cup [kind : {"render"}, figure : {"b"}, format : {"pdf"}, shot : {FALSE}]
    \cup [kind : {"check"}, figure : {"a"}, format : {"none"}, shot : {FALSE}]
    \cup [kind : {"check"}, figure : {"b"}, format : {"none"}, shot : {TRUE}]

NextSurface ==
    \/ \E in \in SurfaceInputs : PostRequest(in)
    \/ \E k \in 1..MaxConns, figureOk \in BOOLEAN : HandlerStart(k, figureOk)
    \/ \E c \in 1..MaxConns, ok, fsOk \in BOOLEAN : PageOpDone(c, ok, fsOk)

SpecSurface == InitServer /\ [][NextSurface]_vars

\* the jobs whose page.pdf or analysis evaluate is running
Printing == {c \in 1..Len(conns) : conns[c].pc \in {"pdf.pdf", "check.evaluate"}}

\* C36: whenever page.pdf or the layout-analysis evaluate runs, the scale
\* factor of the page is 1 and its viewport is the width x height of the
\* document of the job that runs it, also after an earlier PNG render or
\* check screenshot failed with the scale factor raised to 2.
C36_ViewportOfJob ==
    \A c \in Printing :
        /\ srv.page.dsf = 1
        /\ srv.page.w = DocSize(conns[c].figure).w
        /\ srv.page.h = DocSize(conns[c].figure).h

\* an earlier job wrote its screenshot and failed restoring the scale
\* factor, and a later job of a document of another size prints or analyses
C36_Witness ==
    /\ Len(conns) = 2
    /\ conns[1].wrote /\ conns[1].status = 500
    /\ \/ conns[1].kind = "render" /\ conns[1].format = "png"
       \/ conns[1].kind = "check" /\ conns[1].shot
    /\ 2 \in Printing
    /\ conns[2].figure # conns[1].figure
    /\ srv.page.dsf = 1

\* ------------------------------------------------------------------------
\* SpecWatch: watchFigure (checker.js 124-163). The state after the call:
\* doCheck(false) has run up to its await, the watcher is installed. Then
\* file-change events, the debounce timer and the completion of a check, in
\* any order.
\* ------------------------------------------------------------------------
MaxSaves == 3    \* file-change events in one run

DebounceMs == 250

CheckOutcomes == {"report", "error", "refused"}

\* what a check that ended writes to stdout: the report with its [run N]
\* tag, or the server error, with the hint when the connection was refused
Written(run, outcome) ==
    CASE outcome = "report"  -> <<<<"report", run>>>>
      [] outcome = "refused" -> <<<<"Server error", run>>, <<"Is the server running?", run>>>>
      [] OTHER               -> <<<<"Server error", run>>>>

\* faulty variant: doCheck without the running test
DoCheckUnguarded(w, reload) ==
    [w EXCEPT !.running = TRUE,
              !.runNum = @ + 1,
              !.checks = Append(@, [run |-> w.runNum + 1, reload |-> reload,
                                    seen |-> w.saves, state |-> "running"])]

\* doCheck(reload) up to its await: nothing when a check is running, else
\* running = true, runNum++ and the request of checkAndReport is sent. seen:
\* the saves of figure.js made before the check starts
DoCheck(w, reload) ==
    IF w.running THEN w
    ELSE [w EXCEPT !.running = TRUE,
                   !.runNum = @ + 1,
                   !.checks = Append(@, [run |-> w.runNum + 1, reload |-> reload,
                                         seen |-> w.saves, state |-> "running"])]

InitWatch ==
    /\ queues = [i \in QueueIds |-> EmptyQueue]
    /\ srv = IdleServer
    /\ conns = <<>>
    /\ srvQ = EmptyQueue
    /\ cli = DoCheck([up |-> FALSE, runNum |-> 0, running |-> FALSE,
                      debounce |-> 0, fired |-> 0, saves |-> 0,
                      checks |-> <<>>, out |-> <<>>], FALSE)

\* the fs.watch callback: clearTimeout(debounce), setTimeout(..., 250)
WatchEvent ==
    /\ "debounce" \in DOMAIN cli
    /\ cli.saves < MaxSaves
    /\ cli' = [cli EXCEPT !.saves = @ + 1, !.debounce = DebounceMs]
    /\ UNCHANGED <<queues, srv, conns, srvQ>>

\* the debounce timer fires: doCheck(true). fired counts the firings
DebounceFire ==
    /\ "debounce" \in DOMAIN cli
    /\ cli.debounce > 0
    /\ cli' = DoCheck([cli EXCEPT !.debounce = 0, !.fired = @ + 1], TRUE)
    /\ UNCHANGED <<queues, srv, conns, srvQ>>

\* the await of check i ends: the report or the error is written, and the
\* finally block clears running
CheckDone(i, outcome) ==
    /\ "debounce" \in DOMAIN cli
    /\ i \in 1..Len(cli.checks)
    /\ cli.checks[i].state = "running"
    /\ cli' = [cli EXCEPT !.checks[i].state = outcome,
                          !.out = @ \o Written(cli.checks[i].run, outcome),
                          !.running = FALSE]
    /\ UNCHANGED <<queues, srv, conns, srvQ>>

NextWatch ==
    \/ WatchEvent
    \/ DebounceFire
    \/ \E i \in 1..(MaxSaves + 1), outcome \in CheckOutcomes : CheckDone(i, outcome)

SpecWatch == InitWatch /\ [][NextWatch]_vars

\* the timer the event loop runs and the request that is answered
SpecWatchFair ==
    /\ SpecWatch
    /\ WF_vars(DebounceFire)
    /\ WF_vars(\E i \in 1..(MaxSaves + 1), outcome \in CheckOutcomes : CheckDone(i, outcome))

\* ------------------------------------------------------------------------
\* Claims about watch mode
\* ------------------------------------------------------------------------
InFlight == {i \in 1..Len(cli.checks) : cli.checks[i].state = "running"}

\* the timer fires while a check is running
DroppedTrigger == cli.debounce > 0 /\ cli.running /\ cli'.debounce = 0

\* C37: in watch mode at most one check is in flight at any time, and runNum
\* goes up by exactly one per check that is executed: the checks carry the
\* run numbers 1, 2, 3, ..., and a trigger that arrives while a check is
\* running starts no check and takes no run number.
C37_OneCheckInFlight ==
    /\ [](/\ Cardinality(InFlight) <= 1
          /\ cli.runNum = Len(cli.checks)
          /\ \A i \in 1..Len(cli.checks) : cli.checks[i].run = i
          /\ cli.running <=> InFlight # {})
    /\ [][/\ cli'.runNum \in {cli.runNum, cli.runNum + 1}
          /\ DroppedTrigger => /\ cli'.runNum = cli.runNum
                               /\ cli'.checks = cli.checks]_vars

\* the timer has fired twice, once while run 1 was in flight, and the
\* second save is being checked as run 2
C37_Witness ==
    /\ cli.saves = 2 /\ cli.fired = 2
    /\ Len(cli.checks) = 2
    /\ cli.checks[1].state # "running"
    /\ cli.checks[2].seen = 2 /\ cli.checks[2].reload
    /\ 2 \in InFlight

\* the saves made before a check with reload = true started
Reloaded(e) == \E i \in 1..Len(cli.checks) :
                   cli.checks[i].reload /\ cli.checks[i].seen >= e

\* C38: in watch mode every save of figure.js is eventually checked: after
\* the e-th file-change event some check with reload = true starts when the
\* debounce of the event has expired.
C38_EverySaveChecked ==
    \A e \in 1..MaxSaves : (cli.saves >= e) ~> Reloaded(e)

\* ------------------------------------------------------------------------
\* SpecFigurer: one D3Figurer instance (part_013 12-62) whose caller awaits
\* each startServer and stopServer call. server: this.server; inst: what
\* became of the FigurerServer it holds; results: how the calls ended.
\* ------------------------------------------------------------------------
MaxCalls == 5    \* startServer and stopServer calls on one instance

InitFigurer ==
    /\ queues = [i \in QueueIds |-> EmptyQueue]
    /\ srv = IdleServer
    /\ conns = <<>>
    /\ srvQ = EmptyQueue
    /\ cli = [up |-> FALSE, server |-> "null", inst |-> "none", results |-> <<>>]

\* startServer(port); startOk: this.server.start() resolves
StartServer(startOk) ==
    /\ "server" \in DOMAIN cli
    /\ Len(cli.results) < MaxCalls
    /\ IF cli.server # "null"
       THEN cli' = [cli EXCEPT !.results = Append(@, "Server already running")]
       ELSE cli' = [cli EXCEPT !.server = "FigurerServer",
                               !.inst = IF startOk THEN "started" ELSE "failed",
                               !.results = Append(@, IF startOk THEN "started"
                                                     ELSE "start failed")]
    /\ UNCHANGED <<queues, srv, conns, srvQ>>

\* stopServer(): stop() of the server held, then this.server = null
StopServer ==
    /\ "server" \in DOMAIN cli
    /\ Len(cli.results) < MaxCalls
    /\ IF cli.server # "null"
       THEN cli' = [cli EXCEPT !.server = "null", !.inst = "stopped",
                               !.results = Append(@, "stopped")]
       ELSE cli' = [cli EXCEPT !.results = Append(@, "nothing to stop")]
    /\ UNCHANGED <<queues, srv, conns, srvQ>>

NextFigurer ==
    \/ \E startOk \in BOOLEAN : StartServer(startOk)
    \/ StopServer

SpecFigurer == InitFigurer /\ [][NextFigurer]_vars

\* ------------------------------------------------------------------------
\* Claims about D3Figurer
\* ------------------------------------------------------------------------
AlreadyRunningStep ==
    /\ Len(cli'.results) = Len(cli.results) + 1
    /\ cli'.results[Len(cli'.results)] = "Server already running"

\* C39: startServer rejects with 'Server already running' only when a server
\* started by this instance is running: after a startServer call whose
\* start() failed, and after stopServer, a new startServer call is accepted;
\* this.server is non-null exactly while a started server exists.
C39_AlreadyRunning ==
    /\ [](cli.server # "null" <=> cli.inst = "started")
    /\ [][AlreadyRunningStep => cli.inst = "started"]_vars

\* ------------------------------------------------------------------------
\* SpecStandalone: D3Figurer.render (part_013 83-100), which asks the server
\* when one answers and else calls StandaloneRenderer.render (standalone.js
\* 71-129). Each call is run to its end; failAt names the step of it that
\* throws or rejects.
\* ------------------------------------------------------------------------
MaxRenders == 2    \* render calls in one run

CliFormats == {"pdf", "png", "svg"}

\* the steps of StandaloneRenderer.render in their order; page.pdf and
\* page.screenshot write the file at outputPath, no step does for svg
StandaloneSteps(format) ==
    <<"loadFigure", "launch", "newPage", "setViewport", "setContent">>
    \o (IF format \in {"pdf", "png"} THEN <<"capture">> ELSE <<>>)
    \o <<"page.close", "browser.close">>

FailPoints(format) ==
    {"none"} \cup {StandaloneSteps(format)[i] : i \in 1..Len(StandaloneSteps(format))}

\* StandaloneRenderer.render(figureName, outputPath, {format}). launch and
\* newPage are awaited before the try block; finally awaits page.close() and
\* then browser.close()
StandaloneRender(format, failAt) ==
    LET launched == failAt \notin {"loadFigure", "launch"}
        inTry    == launched /\ failAt # "newPage"
    IN  [mode     |-> "standalone",
         format   |-> format,
         result   |-> IF failAt = "none" THEN "success" ELSE "error",
         artifact |-> /\ inTry /\ format \in {"pdf", "png"}
                      /\ failAt \notin {"setViewport", "setContent", "capture"},
         browser  |-> IF ~launched THEN "none"
                      ELSE IF inTry /\ failAt \notin {"page.close", "browser.close"}
                           THEN "closed" ELSE "open"]

\* client.render(figureName, outputPath, {format}): the body of a 200
\* response, after the server wrote the file, or an Error
ClientRender(format, failAt) ==
    [mode     |-> "server",
     format   |-> format,
     result   |-> IF failAt = "none" THEN "success" ELSE "error",
     artifact |-> failAt = "none",
     browser  |-> "none"]

InitStandalone ==
    /\ queues = [i \in QueueIds |-> EmptyQueue]
    /\ srv = IdleServer
    /\ conns = <<>>
    /\ srvQ = EmptyQueue
    /\ cli = [up |-> FALSE, renders |-> <<>>]

\* D3Figurer.render(figureName, outputPath, {format})
FigurerRender(format, serverAvailable, failAt) ==
    /\ "renders" \in DOMAIN cli
    /\ Len(cli.renders) < MaxRenders
    /\ failAt \in FailPoints(format)
    /\ cli' = [cli EXCEPT !.renders =
                 Append(@, IF serverAvailable THEN ClientRender(format, failAt)
                           ELSE StandaloneRender(format, failAt))]
    /\ UNCHANGED <<queues, srv, conns, srvQ>>

NextStandalone ==
    \E format \in CliFormats, serverAvailable \in BOOLEAN,
       failAt \in FailPoints("pdf") :
        FigurerRender(format, serverAvailable, failAt)

SpecStandalone == InitStandalone /\ [][NextStandalone]_vars

\* ------------------------------------------------------------------------
\* Claims about standalone rendering
\* ------------------------------------------------------------------------
\* C40: StandaloneRenderer.render resolves with success only after an
\* artifact has been written at outputPath, for each of the formats pdf, png
\* and svg, so that D3Figurer.render gives the same artifact-or-error outcome
\* through the server and standalone; and the browser it launched is closed
\* on the success and on the failure path.
C40_ArtifactOrError ==
    \A i \in 1..Len(cli.renders) :
        /\ cli.renders[i].result = "success" => cli.renders[i].artifact
        /\ cli.renders[i].browser # "open"

====
